---- MODULE Spec2Model ----
(***************************************************************************)
(* Work queue and dispatch engine of agent-orchestrator.                   *)
(*                                                                         *)
(*   Spec        the project-scoped store (src/queue/isolated.js): calls   *)
(*               of enqueue/update/ready/claim/complete run concurrently,  *)
(*               one step per suspension point (await), under the          *)
(*               promise-chain lock of withProjectLock.                    *)
(*   SpecSeq     the store operations called one after the other.          *)
(*   SpecStamp   store operations with the timestamps of the items.        *)
(*   SpecClaim   claim applied repeatedly to a store drawn from a bounded  *)
(*               set of queues.                                            *)
(*   SpecRoundTrip  enqueue of one input, then get.                        *)
(*   SpecBatch   one Executor.executeProject, the agents' marker files and *)
(*               checkExecution.                                           *)
(*   SpecProjectExecutor  ProjectExecutor.executeItem on a project store.  *)
(*   SpecExecute Executor.executeItem by id, by partial id, by unknown id.  *)
(*   SpecRetry   Executor.executeItem and checkExecution on one item.      *)
(*   SpecEvents  EventStream: subscribe, publish, loadHistory.              *)
(*   SpecSubscribe  EventStream: subscribe, the handles, publish.          *)
(*   SpecLock    update and claim calls on the store, every fn settling.   *)
(*   SpecBacklog one executeProject on four ready items, completions and   *)
(*               checkExecution: the order pendingSpawns is emptied in.    *)
(*   SpecDrain   executeProject, sessions that end, checks without end.    *)
(*   SpecWorker  the agent worker: checkForWork, executeWork.              *)
(*   SpecEngine  Executor, Dispatcher and AgentManager over the global     *)
(*               queue (src/queue/index.js).                               *)
(***************************************************************************)
EXTENDS Integers, Sequences, FiniteSets, TLC

VARIABLES
    files,          \* queue file of each path: the "items" array
    projectLocks,   \* Map projectId -> promise (0: Promise.resolve())
    resolved,       \* the promises that have been resolved
    calls,          \* the store calls issued so far, by call number
    ncalls,         \* how many calls were issued
    nextId,         \* generateId: the next fresh id
    serial,         \* history: the calls applied one at a time, in lock order
    handed,         \* history: item id -> calls that claimed it since it was last readied
    \* SpecSeq, SpecClaim: one store, its operations called one after the other
    queue,          \* the items array of the store
    given,          \* the items array the behaviour started from; SpecRoundTrip: the input enqueued
    last,           \* the last operation: its name, arguments, the array before it, its result
    returned,       \* the ids returned by the claims so far (0: null), in call order
    \* SpecEngine: queue is the global queue file
    sessions,       \* agentManager.sessions: agentId -> session
    spawned,        \* how many agent ids were generated
    running,        \* Executor.running: agentId -> workItemId
    tasks,          \* the engine calls issued so far, by call number
    ntasks,         \* how many engine calls were issued
    markers,        \* agentId -> the COMPLETION.md and BLOCKED.md of its session
    pendingSpawns,  \* Executor.pendingSpawns: ids of the items waiting to spawn
    published,      \* the events the engine has published: type, agentId, workItemId
    \* SpecStamp, SpecEvents
    now,            \* the clock: what new Date() last returned
    eventLog,       \* EventStream.eventLog: the in-memory ring
    logFile,        \* the lines of events.jsonl
    listeners,      \* EventEmitter: event type -> the callbacks registered, in order
    delivered,      \* the calls made of the callbacks: <<callback, event id>>
    subscribers,    \* EventStream.subscribers: subscriberId -> {callback, eventTypes}
    handles,        \* history: callback -> the id its handle unsubscribes, and
                    \* whether the handle has been called
    \* SpecWorker: queue is the store the worker claims from
    isWorking,      \* agent worker: let isWorking
    currentWork     \* agent worker: let currentWork (0: null), the id of the item

storeVars == <<files, projectLocks, resolved, calls, ncalls, nextId, serial, handed>>
seqVars == <<queue, given, last, returned>>

engVars == <<sessions, spawned, running, tasks, ntasks>>
runVars == <<markers, pendingSpawns, published>>

evVars == <<now, eventLog, logFile, listeners, delivered, subscribers, handles>>

wkVars == <<isWorking, currentWork>>

vars == <<storeVars, seqVars, engVars, runVars, evVars, wkVars>>

----------------------------------------------------------------------------
(* Bounds *)

MaxCalls == 2       \* store calls issued in one behaviour of Spec
MaxEnqueues == 2    \* enqueue calls among them
MaxSeqItems == 2    \* items enqueued in one behaviour of SpecSeq
MaxClaimItems == 3  \* items of a store SpecClaim starts from
MaxClaims == 3      \* claim calls in one behaviour of SpecClaim
MaxTasks == 2       \* engine calls issued in one behaviour of SpecEngine
MaxSessions == 3    \* agent sessions spawned in one behaviour of SpecEngine
MaxRetryTasks == 3  \* engine calls issued in one behaviour of SpecRetry
MaxBacklogTasks == 4 \* engine calls issued in one behaviour of SpecBacklog
MaxDrainTasks == 2  \* engine calls in progress at one time in SpecDrain
MaxWorkerTasks == 3 \* checkForWork calls made in one behaviour of SpecWorker
MaxNow == 2         \* the latest time the clock shows in SpecStamp
MaxStreamCalls == 3 \* publish and loadHistory calls in one behaviour of SpecEvents
maxLogSize == 2     \* EventStream.maxLogSize, scaled down from the 1000 of the source

----------------------------------------------------------------------------
(* Data model *)

Projects == {"A", "B"}
Agents == {"agent-1", "agent-2"}
Null == "null"
Undefined == "undefined"
Statuses == {"inbox", "planning", "ready", "in_flight", "review", "blocked", "done"}
priorityOrder == <<"urgent", "high", "medium", "low">>
Priorities == {priorityOrder[k] : k \in 1..Len(priorityOrder)}

\* The values of a string field that are falsy: v || d gives d for them.
Falsy == {Undefined, Null, ""}
OrDefault(v, d) == IF v \in Falsy THEN d ELSE v

\* The input { title: 'task' }: the other string fields are not given;
\* acceptanceCriteria not given and given as [] both make [].
TitleOnly ==
    [title |-> "task", description |-> Undefined, acceptanceCriteria |-> <<>>,
     priority |-> Undefined, complexity |-> Undefined, createdBy |-> Undefined]

\* A work item that takes createdBy from nowhere.
workItemUnknown(id, item) ==
    [id |-> id,
     title |-> item.title,
     description |-> OrDefault(item.description, ""),
     acceptanceCriteria |-> item.acceptanceCriteria,
     status |-> "inbox",
     priority |-> OrDefault(item.priority, "medium"),
     complexity |-> OrDefault(item.complexity, "m"),
     createdBy |-> "unknown",
     assignedAgentId |-> Null,
     artifacts |-> <<>>]

\* The work item enqueue builds from its input.
workItem(id, item) ==
    [id |-> id,
     title |-> item.title,
     description |-> OrDefault(item.description, ""),
     acceptanceCriteria |-> item.acceptanceCriteria,
     status |-> "inbox",
     priority |-> OrDefault(item.priority, "medium"),
     complexity |-> OrDefault(item.complexity, "m"),
     createdBy |-> OrDefault(item.createdBy, "unknown"),
     assignedAgentId |-> Null,
     artifacts |-> <<>>]

\* JSON.parse(JSON.stringify(item)) on the fields a caller gives: a string
\* is read back as written, an undefined element of an array as null.
parseStringify(item) ==
    [item EXCEPT !.acceptanceCriteria =
        [i \in 1..Len(@) |-> IF @[i] = Undefined THEN Null ELSE @[i]]]

\* { ...item, ...updates }
Merge(item, updates) ==
    [f \in DOMAIN item |-> IF f \in DOMAIN updates THEN updates[f] ELSE item[f]]

\* Array.prototype.find / findIndex over the matching positions S: the first
\* one, 1-based; 0 when nothing matches.
findIndex(S) ==
    IF S = {} THEN 0 ELSE CHOOSE i \in S : \A j \in S : i <= j

\* One queue file for every project.
sharedPath(projectId) == "A"

\* getProjectPaths(projectId).queue
getProjectPaths(projectId) == projectId

\* One lock for every project, as the fileLock of the global store.
sharedLock(projectId) == "A"

\* The key of the project's entry in projectLocks.
getLock(projectId) == projectId

----------------------------------------------------------------------------
(* The store operations on an items array: [ok, items, ret].               *)
(* ok = FALSE: the operation threw; ret: the id of the returned item, 0    *)
(* for null.                                                               *)

enqueue(items, id, item) ==
    [ok |-> TRUE, items |-> Append(items, parseStringify(workItem(id, item))), ret |-> id]

\* update without the check of index === -1.
updateUnchecked(items, id, updates) ==
    LET index == findIndex({i \in 1..Len(items) : items[i].id = id}) IN
    [ok |-> TRUE,
     items |-> [i \in 1..Len(items) |-> IF i = index THEN Merge(items[i], updates) ELSE items[i]],
     ret |-> id]

update(items, id, updates) ==
    LET index == findIndex({i \in 1..Len(items) : items[i].id = id}) IN
    IF index = 0
    THEN [ok |-> FALSE, items |-> items, ret |-> 0]
    ELSE [ok |-> TRUE,
          items |-> [items EXCEPT ![index] = Merge(@, updates)],
          ret |-> id]

\* A scan that takes the first ready item whatever its priority.
firstReady(items, k) ==
    findIndex({j \in 1..Len(items) : items[j].status = "ready"})

\* A scan that looks at the priority and not at the status.
anyStatus(items, k) ==
    findIndex({j \in 1..Len(items) : items[j].priority \in Priorities})

\* The for loop over priorityOrder, from position k on.
RECURSIVE nextItem(_, _)
nextItem(items, k) ==
    IF k > Len(priorityOrder) THEN 0
    ELSE LET i == findIndex({j \in 1..Len(items) :
                        items[j].status = "ready" /\ items[j].priority = priorityOrder[k]})
         IN IF i # 0 THEN i ELSE nextItem(items, k + 1)

\* claim that marks the item in_flight and leaves out the agent.
claimUnassigned(items, agentId) ==
    LET n == nextItem(items, 1) IN
    IF n = 0
    THEN [ok |-> TRUE, items |-> items, ret |-> 0]
    ELSE [ok |-> TRUE,
          items |-> [items EXCEPT ![n] = Merge(@, [status |-> "in_flight"])],
          ret |-> items[n].id]

claim(items, agentId) ==
    LET n == nextItem(items, 1) IN
    IF n = 0
    THEN [ok |-> TRUE, items |-> items, ret |-> 0]
    ELSE LET index == findIndex({i \in 1..Len(items) : items[i].id = items[n].id}) IN
         [ok |-> TRUE,
          items |-> [items EXCEPT ![index] =
                        Merge(@, [status |-> "in_flight", assignedAgentId |-> agentId])],
          ret |-> items[index].id]

ready(items, id) == update(items, id, [status |-> "ready"])

\* complete that keeps the artifacts of an item that is done already.
completeFirstWins(items, id, artifacts) ==
    LET index == findIndex({i \in 1..Len(items) : items[i].id = id}) IN
    IF index # 0 /\ items[index].status = "done"
    THEN update(items, id, [status |-> "done", assignedAgentId |-> Null])
    ELSE update(items, id,
                [status |-> "done", artifacts |-> artifacts, assignedAgentId |-> Null])

complete(items, id, artifacts) ==
    update(items, id,
           [status |-> "done", artifacts |-> artifacts, assignedAgentId |-> Null])

list(items, status) ==
    IF status = Null THEN items
    ELSE SelectSeq(items, LAMBDA it : it.status = status)

\* stats: total, and byStatus with the count of each status it lists
stats(items) ==
    [total |-> Len(items),
     byStatus |-> [s \in {"inbox", "ready", "in_flight", "done", "blocked"} |->
                        Len(SelectSeq(items, LAMBDA i : i.status = s))]]

\* What get returns when no item has the id (undefined).
NoItem ==
    [id |-> 0, title |-> Undefined, description |-> Undefined,
     acceptanceCriteria |-> <<>>, status |-> Undefined, priority |-> Undefined,
     complexity |-> Undefined, createdBy |-> Undefined,
     assignedAgentId |-> Undefined, artifacts |-> <<>>]

get(items, id) ==
    LET index == findIndex({i \in 1..Len(items) : items[i].id = id}) IN
    IF index = 0 THEN NoItem ELSE items[index]

\* The text of the ids: ids 1 to 4 are ids that generateId returns, all of one
\* length; 5 is the leading part of ids 1 and 2, and 6 that of id 4.
idText == <<<<1, 1>>, <<1, 2>>, <<2, 1>>, <<3, 1>>, <<1>>, <<3>>>>

\* String.prototype.startsWith
startsWith(text, searchString) ==
    /\ Len(searchString) <= Len(text)
    /\ SubSeq(text, 1, Len(searchString)) = searchString

\* items.find(i => i.id === workItemId || i.id.startsWith(workItemId))
find(items, workItemId) ==
    LET index == findIndex({i \in 1..Len(items) :
                    \/ items[i].id = workItemId
                    \/ startsWith(idText[items[i].id], idText[workItemId])}) IN
    IF index = 0 THEN NoItem ELSE items[index]

----------------------------------------------------------------------------
(* Spec: concurrent calls on the project-scoped store.                      *)

\* The stores the calls start from: both projects empty, or one ready item in
\* each.
SeedOwner == <<"A", "B">>
SeedItem(id, priority) ==
    [workItem(id, [TitleOnly EXCEPT !.priority = priority]) EXCEPT !.status = "ready"]
Seeds ==
    {[A |-> <<>>, B |-> <<>>],
     [A |-> <<SeedItem(1, "high")>>, B |-> <<SeedItem(2, "low")>>]}
SeedIds == Len(SeedOwner)

Items == 1..(SeedIds + MaxEnqueues)
CallIds == 1..MaxCalls

EnqueueInputs == {[TitleOnly EXCEPT !.priority = p] : p \in {"urgent", Undefined}}
UpdateInputs == {[status |-> "blocked"]}
ArtifactInputs == {<<"artifact-1">>}

NoCall ==
    [pc |-> "idle", op |-> Null, projectId |-> Null, id |-> 0, agentId |-> Null,
     item |-> TitleOnly, updates |-> [status |-> Null],
     previousLock |-> 0, items |-> <<>>, ret |-> 0, ok |-> TRUE,
     overlaps |-> {}]

\* No operation yet.
NoOp == [op |-> Null, id |-> 0, agentId |-> Null, artifacts |-> <<>>,
         status |-> Null, before |-> <<>>, ok |-> TRUE, ret |-> 0]

IdleSeq ==
    /\ queue = <<>>
    /\ given = <<>>
    /\ last = NoOp
    /\ returned = <<>>

NoSession == [workItemId |-> 0, status |-> Undefined]
\* What a check of an agent returned: no check made yet.
NoResult == [status |-> Null, report |-> Undefined]
NoTask == [op |-> Null, pc |-> "idle", id |-> 0, agentId |-> Null, toSpawn |-> <<>>,
           error |-> Null, results |-> <<>>, queued |-> 0, result |-> NoResult]
\* Neither marker file exists, and no deliverable in the artifacts directory.
NoMarkers == [completion |-> Undefined, blocked |-> Undefined, artifacts |-> <<>>]
\* crypto.randomBytes(8): the n-th id generated is AgentIds[n]
AgentIds == <<"agent-1", "agent-2", "agent-3", "agent-4", "agent-5">>

\* An event stream just constructed, no log file yet; the clock at zero.
EventTypes == {"execution:completed", "execution:blocked"}
\* The subscriber ids, and the callbacks: that of the ui, that of the audit.
Subscribers == {"ui", "audit"}
Callbacks == {"ui", "audit"}
\* subscribers.get(subscriberId) of an id that is not subscribed
NoSubscriber == [callback |-> Undefined, eventTypes |-> <<>>]
IdleEvents ==
    /\ now = 0
    /\ eventLog = <<>>
    /\ logFile = <<>>
    /\ listeners = [type \in EventTypes \cup {"*"} |-> <<>>]
    /\ delivered = {}
    /\ subscribers = [subscriberId \in Subscribers |-> NoSubscriber]
    /\ handles = [callback \in Callbacks |-> [id |-> Null, called |-> FALSE]]

\* The worker before its first checkForWork.
IdleWorker ==
    /\ isWorking = FALSE
    /\ currentWork = 0

IdleEngine ==
    /\ sessions = [a \in {AgentIds[n] : n \in 1..MaxSessions} |-> NoSession]
    /\ spawned = 0
    /\ running = [a \in {AgentIds[n] : n \in 1..MaxSessions} |-> 0]
    /\ tasks = [t \in 1..MaxTasks |-> NoTask]
    /\ ntasks = 0
    /\ markers = [a \in {AgentIds[n] : n \in 1..MaxSessions} |-> NoMarkers]
    /\ pendingSpawns = <<>>
    /\ published = {}
    /\ IdleEvents
    /\ IdleWorker

IdleStore ==
    /\ files = [path \in {getProjectPaths(p) : p \in Projects} |-> <<>>]
    /\ projectLocks = [k \in {getLock(p) : p \in Projects} |-> 0]
    /\ resolved = {0}
    /\ calls = [c \in CallIds |-> NoCall]
    /\ ncalls = 0
    /\ nextId = 1
    /\ serial = [p \in Projects |-> <<>>]
    /\ handed = [i \in Items |-> {}]

InitStore ==
    /\ \E seed \in Seeds :
        /\ files = [path \in {getProjectPaths(p) : p \in Projects} |->
                        seed[CHOOSE p \in Projects : getProjectPaths(p) = path]]
        /\ serial = seed
    /\ projectLocks = [k \in {getLock(p) : p \in Projects} |-> 0]
    /\ resolved = {0}
    /\ calls = [c \in CallIds |-> NoCall]
    /\ ncalls = 0
    /\ nextId = SeedIds + 1
    /\ handed = [i \in Items |-> {}]

\* What the call's fn computes from the loaded items array.
Apply(call, items, id) ==
    CASE call.op = "enqueue" -> enqueue(items, id, call.item)
      [] call.op = "update" -> update(items, call.id, call.updates)
      [] call.op = "ready" -> ready(items, call.id)
      [] call.op = "complete" -> complete(items, call.id, call.updates.artifacts)
      [] call.op = "claim" -> claim(items, call.agentId)

\* A lock that does not wait: fn starts at once.
previousLockIgnored(call) == TRUE

\* await previousLock
previousLockSettled(call) == call.previousLock \in resolved

\* withProjectLock without its setLock: the next caller waits for the same
\* promise as this one.
withProjectLockNoSet(call) ==
    /\ ncalls < MaxCalls
    /\ LET c == ncalls + 1 IN
        /\ calls' = [calls EXCEPT ![c] =
                [call EXCEPT !.pc = "await",
                             !.previousLock = projectLocks[getLock(call.projectId)],
                             !.overlaps = {d \in CallIds :
                                            calls[d].pc \in {"await", "load", "save"}}]]
        /\ ncalls' = c
    /\ UNCHANGED <<files, projectLocks, resolved, nextId, serial, handed, seqVars, engVars, runVars, evVars, wkVars>>

\* withProjectLock up to its first await: take the project's lock promise and
\* leave a new, pending one in its place.
withProjectLock(call) ==
    /\ ncalls < MaxCalls
    /\ LET c == ncalls + 1 IN
        /\ calls' = [calls EXCEPT ![c] =
                [call EXCEPT !.pc = "await",
                             !.previousLock = projectLocks[getLock(call.projectId)],
                             !.overlaps = {d \in CallIds :
                                            calls[d].pc \in {"await", "load", "save"}}]]
        /\ projectLocks' = [projectLocks EXCEPT ![getLock(call.projectId)] = c]
        /\ ncalls' = c
    /\ UNCHANGED <<files, resolved, nextId, serial, handed, seqVars, engVars, runVars, evVars, wkVars>>

CallEnqueue(p, item) ==
    /\ Cardinality({c \in CallIds : calls[c].op = "enqueue"}) < MaxEnqueues
    /\ withProjectLock([NoCall EXCEPT !.op = "enqueue", !.projectId = p, !.item = item])

CallUpdate(p, id, updates) ==
    /\ id < nextId
    /\ withProjectLock([NoCall EXCEPT !.op = "update", !.projectId = p, !.id = id,
                                   !.updates = updates])

CallReady(p, id) ==
    /\ id < nextId
    /\ withProjectLock([NoCall EXCEPT !.op = "ready", !.projectId = p, !.id = id])

CallComplete(p, id, artifacts) ==
    /\ id < nextId
    /\ withProjectLock([NoCall EXCEPT !.op = "complete", !.projectId = p, !.id = id,
                                   !.updates = [status |-> "done", artifacts |-> artifacts]])

CallClaim(p, agentId) ==
    withProjectLock([NoCall EXCEPT !.op = "claim", !.projectId = p, !.agentId = agentId])

\* The await of previousLock returns and fn starts (its readFile is issued).
Await(c) ==
    /\ calls[c].pc = "await"
    /\ previousLockSettled(calls[c])
    /\ calls' = [calls EXCEPT ![c].pc = "load"]
    /\ UNCHANGED <<files, projectLocks, resolved, ncalls, nextId, serial, handed, seqVars, engVars, runVars, evVars, wkVars>>

\* fn with the lock released as soon as the queue is loaded.
LoadReleasing(c) ==
    /\ calls[c].pc = "load"
    /\ LET call == calls[c]
           r == Apply(call, files[getProjectPaths(call.projectId)], nextId)
           saves == r.ok /\ ~(call.op = "claim" /\ r.ret = 0)
       IN
        /\ calls' = [calls EXCEPT ![c].pc = IF saves THEN "save" ELSE "done",
                                  ![c].items = r.items,
                                  ![c].ret = r.ret,
                                  ![c].ok = r.ok]
        /\ resolved' = resolved \cup {c}
        /\ nextId' = IF call.op = "enqueue" THEN nextId + 1 ELSE nextId
        /\ serial' = [serial EXCEPT ![call.projectId] = Apply(call, @, nextId).items]
    /\ UNCHANGED <<files, projectLocks, ncalls, handed, seqVars, engVars, runVars, evVars, wkVars>>

\* fn without the finally block: a fn that ends without saving never
\* releases the lock.
LoadNoFinally(c) ==
    /\ calls[c].pc = "load"
    /\ LET call == calls[c]
           r == Apply(call, files[getProjectPaths(call.projectId)], nextId)
           saves == r.ok /\ ~(call.op = "claim" /\ r.ret = 0)
       IN
        /\ calls' = [calls EXCEPT ![c].pc = IF saves THEN "save" ELSE "done",
                                  ![c].items = r.items,
                                  ![c].ret = r.ret,
                                  ![c].ok = r.ok]
        /\ nextId' = IF call.op = "enqueue" THEN nextId + 1 ELSE nextId
        /\ serial' = [serial EXCEPT ![call.projectId] = Apply(call, @, nextId).items]
    /\ UNCHANGED <<files, projectLocks, resolved, ncalls, handed, seqVars, engVars, runVars, evVars, wkVars>>

\* loadQueue returns; fn runs up to saveQueue, or ends without saving (a throw,
\* or claim's "return null") and the finally block releases the lock.
Load(c) ==
    /\ calls[c].pc = "load"
    /\ LET call == calls[c]
           r == Apply(call, files[getProjectPaths(call.projectId)], nextId)
           saves == r.ok /\ ~(call.op = "claim" /\ r.ret = 0)
       IN
        /\ calls' = [calls EXCEPT ![c].pc = IF saves THEN "save" ELSE "done",
                                  ![c].items = r.items,
                                  ![c].ret = r.ret,
                                  ![c].ok = r.ok]
        /\ resolved' = IF saves THEN resolved ELSE resolved \cup {c}
        /\ nextId' = IF call.op = "enqueue" THEN nextId + 1 ELSE nextId
        /\ serial' = [serial EXCEPT ![call.projectId] = Apply(call, @, nextId).items]
    /\ UNCHANGED <<files, projectLocks, ncalls, handed, seqVars, engVars, runVars, evVars, wkVars>>

\* saveQueue's writeFile completes; fn returns and the finally block releases.
Save(c) ==
    /\ calls[c].pc = "save"
    /\ LET call == calls[c] IN
        /\ files' = [files EXCEPT ![getProjectPaths(call.projectId)] = call.items]
        /\ handed' =
            IF call.op = "claim"
            THEN [handed EXCEPT ![call.ret] = @ \cup {c}]
            ELSE IF call.op = "ready"
            THEN [handed EXCEPT ![call.id] = {}]
            ELSE handed
    /\ calls' = [calls EXCEPT ![c].pc = "done"]
    /\ resolved' = resolved \cup {c}
    /\ UNCHANGED <<projectLocks, ncalls, nextId, serial, seqVars, engVars, runVars, evVars, wkVars>>

NextStore ==
    \/ \E p \in Projects, item \in EnqueueInputs : CallEnqueue(p, item)
    \/ \E p \in Projects, id \in Items, u \in UpdateInputs : CallUpdate(p, id, u)
    \/ \E p \in Projects, id \in Items : CallReady(p, id)
    \/ \E p \in Projects, id \in Items, a \in ArtifactInputs : CallComplete(p, id, a)
    \/ \E p \in Projects, a \in Agents : CallClaim(p, a)
    \/ \E c \in CallIds : Await(c)
    \/ \E c \in CallIds : Load(c)
    \/ \E c \in CallIds : Save(c)

Init == InitStore /\ IdleSeq /\ IdleEngine

Next == NextStore

Spec == Init /\ [][Next]_vars

\* SpecLock: update and claim calls on the stores of Spec, with every
\* continuation run: the await of a settled previousLock returns, and every
\* fn settles (its readFile and its writeFile complete).
NextLock ==
    \/ \E p \in Projects, id \in Items, u \in UpdateInputs : CallUpdate(p, id, u)
    \/ \E p \in Projects, a \in Agents : CallClaim(p, a)
    \/ \E c \in CallIds : Await(c)
    \/ \E c \in CallIds : Load(c)
    \/ \E c \in CallIds : Save(c)

SpecLock ==
    /\ Init /\ [][NextLock]_vars
    /\ \A c \in CallIds : WF_vars(Await(c)) /\ WF_vars(Load(c)) /\ WF_vars(Save(c))

----------------------------------------------------------------------------
(* Claims on the concurrent store *)

InFn(c) == calls[c].pc \in {"load", "save"}
Pending(c) == calls[c].pc \in {"await", "load", "save"}
SameProject(c, d) == calls[c].projectId = calls[d].projectId

\* The project an item was enqueued in.
Owner(id) ==
    IF id <= SeedIds
    THEN SeedOwner[id]
    ELSE LET c == CHOOSE c \in CallIds : calls[c].op = "enqueue" /\ calls[c].ret = id
         IN calls[c].projectId

\* C1: however the claim calls on a project interleave, an item is returned
\* by at most one of them (until a ready call puts it back).
C1_NoDoubleClaim == \A i \in Items : Cardinality(handed[i]) <= 1

\* Two claims on one project overlap: the first has taken an item and is
\* saving, the second waits for the lock.
C1_Witness ==
    \E c, d \in CallIds :
        /\ c < d /\ SameProject(c, d)
        /\ calls[c].op = "claim" /\ calls[d].op = "claim"
        /\ calls[c].pc = "save" /\ calls[c].ret # 0
        /\ calls[d].pc = "await"

\* C6: at most one fn of a project is inside the critical section, and a
\* later caller's fn starts only when every earlier caller's fn has settled.
C6_Exclusive ==
    \A c, d \in CallIds :
        (c # d /\ SameProject(c, d) /\ calls[c].projectId # Null) =>
            /\ ~(InFn(c) /\ InFn(d))
            /\ (d < c /\ calls[c].pc \in {"load", "save", "done"}) => calls[d].pc = "done"

\* A later caller waits while an earlier caller's fn is running.
C6_Witness ==
    \E c, d \in CallIds :
        d < c /\ SameProject(c, d) /\ InFn(d) /\ calls[c].pc = "await"

C8_NoCrossProjectWait ==
    \A c \in CallIds :
        (calls[c].pc = "await" /\ calls[c].previousLock \notin resolved) =>
            \E d \in CallIds : d # c /\ SameProject(c, d) /\ Pending(d)

\* A call on project A, issued while a call on project B was inside its
\* critical section, has completed and B's call is still inside.
C8_Witness ==
    \E c, d \in CallIds :
        /\ calls[d].projectId = "B" /\ InFn(d)
        /\ calls[c].projectId = "A" /\ d \in calls[c].overlaps
        /\ calls[c].pc = "done" /\ calls[c].ok

\* What list, get and claim on a project can return is owned by the project.
Visible ==
    /\ \A p \in Projects :
        \A i \in 1..Len(list(files[getProjectPaths(p)], Null)) :
            Owner(list(files[getProjectPaths(p)], Null)[i].id) = p
    /\ \A p \in Projects, id \in Items :
        get(files[getProjectPaths(p)], id) # NoItem => Owner(id) = p
    /\ \A c \in CallIds :
        (calls[c].op = "claim" /\ calls[c].ret # 0) => Owner(calls[c].ret) = calls[c].projectId

\* A step changes a project's queue file only as the save of a call on that
\* project.
Frame ==
    \A p \in Projects :
        files'[getProjectPaths(p)] # files[getProjectPaths(p)] =>
            \E c \in CallIds :
                calls[c].projectId = p /\ calls[c].pc = "save" /\ calls'[c].pc = "done"

\* C9: list, get and claim on a project return only items enqueued in that
\* project, and no store operation on one project changes the item
\* collection of another.
C9_Isolation == Visible /\ [][Visible' /\ Frame]_vars

\* A claim on project A found no work while project B holds a ready item.
C9_Witness ==
    \E c \in CallIds :
        /\ calls[c].op = "claim" /\ calls[c].projectId = "A"
        /\ calls[c].pc = "done" /\ calls[c].ret = 0
        /\ list(files[getProjectPaths("B")], "ready") # <<>>

----------------------------------------------------------------------------
(* SpecSeq: the operations of one store, each awaited before the next is    *)
(* called, from the empty store.  An action is a whole call: the lock is    *)
(* free when it starts and free when it returns.                            *)

SeqIds == 1..MaxSeqItems
SeqEnqueueInputs == {TitleOnly}
SeqUpdateInputs ==
    {[status |-> s] : s \in {"review", "blocked"}}
SeqArtifactInputs == {<<"artifact-1">>, <<"artifact-2">>}
SeqAgents == {"agent-1"}

\* The call returns r: the store holds r.items, and last describes the call.
Returns(op, id, agentId, artifacts, status, r) ==
    /\ queue' = r.items
    /\ last' = [op |-> op, id |-> id, agentId |-> agentId, artifacts |-> artifacts,
                status |-> status, before |-> queue, ok |-> r.ok, ret |-> r.ret]

SeqEnqueue(item) ==
    /\ Len(queue) < MaxSeqItems
    /\ Returns("enqueue", 0, Null, <<>>, Null, enqueue(queue, Len(queue) + 1, item))
    /\ UNCHANGED <<given, returned, storeVars, engVars, runVars, evVars, wkVars>>

SeqUpdate(id, updates) ==
    /\ Returns("update", id, Null, <<>>, updates.status, update(queue, id, updates))
    /\ UNCHANGED <<given, returned, storeVars, engVars, runVars, evVars, wkVars>>

SeqReady(id) ==
    /\ Returns("ready", id, Null, <<>>, Null, ready(queue, id))
    /\ UNCHANGED <<given, returned, storeVars, engVars, runVars, evVars, wkVars>>

SeqComplete(id, artifacts) ==
    /\ Returns("complete", id, Null, artifacts, Null, complete(queue, id, artifacts))
    /\ UNCHANGED <<given, returned, storeVars, engVars, runVars, evVars, wkVars>>

SeqClaim(agentId) ==
    /\ Returns("claim", 0, agentId, <<>>, Null, claim(queue, agentId))
    /\ UNCHANGED <<given, returned, storeVars, engVars, runVars, evVars, wkVars>>

\* stats(): last.ret is the record returned
SeqStats ==
    /\ Returns("stats", 0, Null, <<>>, Null,
               [ok |-> TRUE, items |-> list(queue, Null), ret |-> stats(queue)])
    /\ UNCHANGED <<given, returned, storeVars, engVars, runVars, evVars, wkVars>>

NextSeq ==
    \/ SeqStats
    \/ \E item \in SeqEnqueueInputs : SeqEnqueue(item)
    \/ \E id \in SeqIds, u \in SeqUpdateInputs : SeqUpdate(id, u)
    \/ \E id \in SeqIds : SeqReady(id)
    \/ \E id \in SeqIds, a \in SeqArtifactInputs : SeqComplete(id, a)
    \/ \E a \in SeqAgents : SeqClaim(a)

SeqInit == IdleStore /\ IdleSeq /\ IdleEngine

SpecSeq == SeqInit /\ [][NextSeq]_vars

----------------------------------------------------------------------------
(* SpecStamp: the store operations called one after the other, each reading *)
(* a clock that never goes back; the items carry createdAt and updatedAt,   *)
(* and update is called with fields of the caller's choice.                 *)

\* enqueue: createdAt: new Date(), updatedAt: new Date()
enqueueAt(items, id, item, createdAt, updatedAt) ==
    LET r == enqueue(items, id, item) IN
    [r EXCEPT !.items[Len(r.items)] =
                    @ @@ [createdAt |-> createdAt, updatedAt |-> updatedAt]]

\* update: {...queue.items[index], ...updates, updatedAt: new Date()}
updateAt(items, id, updates, updatedAt) ==
    update(items, id, [updatedAt |-> updatedAt] @@ updates)

\* claim: {...queue.items[index], status, assignedAgentId, updatedAt: new Date()}
claimAt(items, agentId, updatedAt) ==
    LET r == claim(items, agentId) IN
    IF r.ret = 0 THEN r
    ELSE [r EXCEPT !.items = update(r.items, r.ret, [updatedAt |-> updatedAt]).items]

StampUpdateInputs == {[status |-> "blocked"], [id |-> 2], [createdAt |-> MaxNow]}

\* new Date(): the clock is read, at t
Date(t) == t \in now..MaxNow /\ now' = t

StampEnqueue(item) ==
    /\ Len(queue) < MaxSeqItems
    /\ \E createdAt \in now..MaxNow :
        \E updatedAt \in createdAt..MaxNow :
            /\ Date(updatedAt)
            /\ queue' = enqueueAt(queue, Len(queue) + 1, item, createdAt, updatedAt).items
    /\ UNCHANGED <<given, last, returned, storeVars, engVars, runVars,
                   eventLog, logFile, listeners, delivered, subscribers, handles, wkVars>>

StampUpdate(id, updates) ==
    /\ \E t \in 0..MaxNow : Date(t) /\ queue' = updateAt(queue, id, updates, t).items
    /\ UNCHANGED <<given, last, returned, storeVars, engVars, runVars,
                   eventLog, logFile, listeners, delivered, subscribers, handles, wkVars>>

StampReady(id) ==
    /\ \E t \in 0..MaxNow :
        Date(t) /\ queue' = updateAt(queue, id, [status |-> "ready"], t).items
    /\ UNCHANGED <<given, last, returned, storeVars, engVars, runVars,
                   eventLog, logFile, listeners, delivered, subscribers, handles, wkVars>>

StampComplete(id, artifacts) ==
    /\ \E t \in 0..MaxNow :
        /\ Date(t)
        /\ queue' = updateAt(queue, id, [status |-> "done", artifacts |-> artifacts,
                                         assignedAgentId |-> Null], t).items
    /\ UNCHANGED <<given, last, returned, storeVars, engVars, runVars,
                   eventLog, logFile, listeners, delivered, subscribers, handles, wkVars>>

StampClaim(agentId) ==
    /\ \E t \in 0..MaxNow : Date(t) /\ queue' = claimAt(queue, agentId, t).items
    /\ UNCHANGED <<given, last, returned, storeVars, engVars, runVars,
                   eventLog, logFile, listeners, delivered, subscribers, handles, wkVars>>

NextStamp ==
    \/ \E item \in SeqEnqueueInputs : StampEnqueue(item)
    \/ \E id \in SeqIds, u \in StampUpdateInputs : StampUpdate(id, u)
    \/ \E id \in SeqIds : StampReady(id)
    \/ \E id \in SeqIds, a \in ArtifactInputs : StampComplete(id, a)
    \/ \E a \in SeqAgents : StampClaim(a)

StampInit == IdleStore /\ IdleSeq /\ IdleEngine

SpecStamp == StampInit /\ [][NextStamp]_vars

----------------------------------------------------------------------------
(* SpecClaim: claim called repeatedly on a store drawn from the queues of   *)
(* at most MaxClaimItems items, each ready or still in the inbox, of any    *)
(* priority (also one that is none of the four classes).                    *)

ClaimPriorities == Priorities \cup {"critical"}
ClaimItems(n) ==
    {[workItem(i, [TitleOnly EXCEPT !.priority = pr]) EXCEPT !.status = st] :
        i \in {n}, st \in {"ready", "inbox"}, pr \in ClaimPriorities}
ClaimQueues ==
    UNION {{q \in [1..n -> UNION {ClaimItems(i) : i \in 1..n}] :
                \A i \in 1..n : q[i].id = i} : n \in 0..MaxClaimItems}

InitClaim ==
    /\ queue \in ClaimQueues
    /\ given = queue
    /\ last = NoOp
    /\ returned = <<>>

ClaimCall(agentId) ==
    /\ Len(returned) < MaxClaims
    /\ LET r == claim(queue, agentId) IN
        /\ Returns("claim", 0, agentId, <<>>, Null, r)
        /\ returned' = Append(returned, r.ret)
    /\ UNCHANGED <<given, storeVars, engVars, runVars, evVars, wkVars>>

NextClaim == \E a \in Agents : ClaimCall(a)

ClaimInit == IdleStore /\ InitClaim /\ IdleEngine

SpecClaim == ClaimInit /\ [][NextClaim]_vars

----------------------------------------------------------------------------
(* Claims on the sequential store *)

\* urgent > high > medium > low
Rank == [urgent |-> 4, high |-> 3, medium |-> 2, low |-> 1]

\* The positions of the ready items of one of the four priority classes.
ReadyOf(items) ==
    {i \in 1..Len(items) :
        items[i].status = "ready" /\ items[i].priority \in DOMAIN Rank}

\* C4: claim returns the ready item of the highest priority class present
\* (urgent > high > medium > low), among those of that class the first in
\* insertion order, and null when no item of the four classes is ready; so
\* a store of a low, an urgent and a medium item, all ready, gives them to
\* three claims in the order urgent, medium, low.
C4_PriorityOrder ==
    /\ last.op = "claim" =>
        LET b == last.before IN
        IF ReadyOf(b) = {} THEN last.ret = 0
        ELSE \E i \in ReadyOf(b) :
                /\ last.ret = b[i].id
                /\ \A j \in ReadyOf(b) :
                    \/ Rank[b[i].priority] > Rank[b[j].priority]
                    \/ Rank[b[i].priority] = Rank[b[j].priority] /\ i <= j
    /\ ( /\ Len(given) = 3
          /\ \A i \in 1..3 : given[i].status = "ready"
          /\ <<given[1].priority, given[2].priority, given[3].priority>>
                = <<"low", "urgent", "medium">>
          /\ Len(returned) = 3 )
        => returned = <<2, 3, 1>>

\* Scenario A has run: the three claims returned urgent, medium, low.
C4_Witness ==
    /\ Len(given) = 3
    /\ \A i \in 1..3 : given[i].status = "ready"
    /\ <<given[1].priority, given[2].priority, given[3].priority>>
            = <<"low", "urgent", "medium">>
    /\ returned = <<2, 3, 1>>

\* The edges of the lifecycle state machine (complete from in_flight counted
\* as one).
Edges ==
    {<<"inbox", "ready">>, <<"inbox", "planning">>, <<"planning", "ready">>,
     <<"ready", "planning">>, <<"ready", "in_flight">>, <<"in_flight", "review">>,
     <<"in_flight", "blocked">>, <<"in_flight", "done">>, <<"review", "done">>,
     <<"blocked", "ready">>}

\* C5: every status change moves along an edge of the lifecycle state
\* machine, and no operation moves an item out of done.
C5_LifecycleEdges ==
    \A i \in 1..Len(last.before) :
        queue[i].status # last.before[i].status =>
            /\ <<last.before[i].status, queue[i].status>> \in Edges
            /\ last.before[i].status # "done"

\* C10 as stated: complete on an item that is not in_flight or review is
\* rejected and leaves the item unchanged.
C10_CompleteRejected ==
    (last.op = "complete" /\ get(last.before, last.id).status \notin {"in_flight", "review"})
        => (~last.ok /\ queue = last.before)

\* C11: ready on an item that is done or blocked is rejected and leaves the
\* item unchanged.
C11_ReadyRejected ==
    (last.op = "ready" /\ get(last.before, last.id).status \in {"done", "blocked"})
        => (~last.ok /\ queue = last.before)

\* C12: update on an id that no item of the store has fails with not-found
\* and leaves the persisted collection as it was.
C12_UpdateNotFound ==
    (last.op = "update" /\ get(last.before, last.id) = NoItem)
        => (~last.ok /\ queue = last.before)

\* update was called with an unknown id on a store that holds an item.
C12_Witness ==
    /\ last.op = "update" /\ ~last.ok
    /\ Len(last.before) > 0
    /\ get(last.before, last.id) = NoItem

\* C13: claim on a store that is empty or holds no ready item returns null,
\* raises nothing and changes no item.
C13_ClaimNoWork ==
    (last.op = "claim" /\ \A i \in 1..Len(last.before) : last.before[i].status # "ready")
        => (last.ok /\ last.ret = 0 /\ queue = last.before)

\* claim returned null on a store holding items, none of them ready.
C13_Witness ==
    /\ last.op = "claim" /\ last.ret = 0
    /\ Len(last.before) > 0
    /\ \A i \in 1..Len(last.before) : last.before[i].status # "ready"
    /\ \E i \in 1..Len(last.before) : last.before[i].status = "inbox"

\* C14: a claim that returns an item has moved exactly that item from
\* ready to in_flight and set its assignedAgentId to the caller, in one
\* write; every other item is as before, and an item that was not ready
\* is neither returned nor changed.
C14_ClaimFrame ==
    last.op = "claim" =>
        /\ Len(queue) = Len(last.before)
        /\ \A i \in 1..Len(queue) :
            IF last.ret # 0 /\ last.before[i].id = last.ret
            THEN /\ last.before[i].status = "ready"
                 /\ queue[i] = [last.before[i] EXCEPT !.status = "in_flight",
                                                       !.assignedAgentId = last.agentId]
            ELSE queue[i] = last.before[i]
        /\ last.ret # 0 => \E i \in 1..Len(queue) : last.before[i].id = last.ret

\* claim returned one of two items; the other, not ready, is as it was.
C14_Witness ==
    /\ last.op = "claim" /\ last.ret # 0
    /\ Len(queue) = 2
    /\ get(queue, last.ret).status = "in_flight"
    /\ get(queue, last.ret).assignedAgentId = last.agentId
    /\ \E i \in 1..2 : queue[i].id # last.ret /\ queue[i].status \in {"blocked", "done"}

\* C16: a complete that returns leaves the item done, with the artifacts of
\* the call and no assigned agent; so of two completes of one item the
\* artifacts of the second are the ones kept.
C16_CompleteLastWins ==
    (last.op = "complete" /\ last.ok)
        => LET item == get(queue, last.id) IN
           /\ item.status = "done"
           /\ item.artifacts = last.artifacts
           /\ item.assignedAgentId = Null

\* complete(a2) returned on an item that complete(a1) had left done.
C16_Witness ==
    /\ last.op = "complete" /\ last.ok
    /\ get(last.before, last.id).status = "done"
    /\ get(last.before, last.id).artifacts = <<"artifact-1">>
    /\ last.artifacts = <<"artifact-2">>
    /\ get(queue, last.id).artifacts = <<"artifact-2">>

----------------------------------------------------------------------------
(* SpecRoundTrip: enqueue(item) on a store that is empty or holds one item, *)
(* then get(id).  The inputs leave an optional field out (undefined) or     *)
(* give it a string, the empty one included; the priority is one of the     *)
(* classes; the acceptance criteria are strings.                            *)

RoundTripInputs ==
    [title : {"task", "other"},
     description : {Undefined, "", "text"},
     acceptanceCriteria : {<<>>, <<"c1">>, <<"c1", "c2">>},
     priority : {Undefined, "high", "low"},
     complexity : {Undefined, "", "l"},
     createdBy : {Undefined, "", "alice"}]
RoundTripStores == {<<>>, <<SeedItem(1, "high")>>}
RoundTripIds == 1..2

InitRoundTrip ==
    /\ queue \in RoundTripStores
    /\ given = <<>>
    /\ last = NoOp
    /\ returned = <<>>

\* enqueue(item) returns the id of the new item; given keeps the input.
RtEnqueue(item) ==
    /\ given = <<>>
    /\ Returns("enqueue", 0, Null, <<>>, Null, enqueue(queue, Len(queue) + 1, item))
    /\ given' = <<item>>
    /\ UNCHANGED <<returned, storeVars, engVars, runVars, evVars, wkVars>>

\* get(id): last.ret is the item returned (NoItem: undefined).
RtGet(id) ==
    /\ given # <<>>
    /\ last' = [op |-> "get", id |-> id, agentId |-> Null, artifacts |-> <<>>,
                status |-> Null, before |-> queue, ok |-> TRUE, ret |-> get(queue, id)]
    /\ UNCHANGED <<queue, given, returned, storeVars, engVars, runVars, evVars, wkVars>>

NextRoundTrip ==
    \/ \E item \in RoundTripInputs : RtEnqueue(item)
    \/ \E id \in RoundTripIds : RtGet(id)

RoundTripInit == IdleStore /\ InitRoundTrip /\ IdleEngine

SpecRoundTrip == RoundTripInit /\ [][NextRoundTrip]_vars

\* get was called with the id the enqueue returned.
GotEnqueued == last.op = "get" /\ last.id = Len(queue)

\* The caller gave the field a value.
Supplied(v) == v # Undefined

----------------------------------------------------------------------------
(* SpecEngine: Executor (mode external) and a started Dispatcher, both over *)
(* the global queue and the one agentManager.  An engine call is a task     *)
(* that takes one step per await; a call of the global queue is one step,   *)
(* the queue's own lock (withLock) running its calls one at a time.         *)

maxConcurrent == 2          \* Executor: options.maxConcurrent || 2
maxConcurrentAgents == 1    \* Dispatcher: options.maxConcurrentAgents || 1

EngineItems == 1..3
EnginePriority == <<"low", "urgent", "medium">>
EngineQueues ==
    {q \in [EngineItems -> UNION {ClaimItems(i) : i \in EngineItems}] :
        \A i \in EngineItems : q[i].id = i /\ q[i].priority = EnginePriority[i]}
Workers == {"worker-1"}
Counts == 1..3

InitEngine ==
    /\ queue \in EngineQueues
    /\ given = queue
    /\ last = NoOp
    /\ returned = <<>>

\* readyItems.sort((a, b) => priorityOrder[a.priority] - priorityOrder[b.priority])
RECURSIVE sortByPriority(_, _)
sortByPriority(items, k) ==
    IF k > Len(priorityOrder) THEN <<>>
    ELSE SelectSeq(items, LAMBDA it : it.priority = priorityOrder[k])
            \o sortByPriority(items, k + 1)

\* slice that takes every item.
sliceAll(items, count) == items

\* items.slice(0, count)
slice(items, count) == SubSeq(items, 1, IF count < Len(items) THEN count ELSE Len(items))

listSessions(status) == {a \in DOMAIN sessions : sessions[a].status = status}

ExecutorOps == {"executeItem", "executeNext", "executeProject"}
DispatcherOps == {"poll", "dispatchItem"}

\* A call is issued: it runs to its first await.
Issue(task) ==
    /\ ntasks < Len(tasks)
    /\ tasks' = [tasks EXCEPT ![ntasks + 1] = task]
    /\ ntasks' = ntasks + 1

Step(t, pc) == [tasks EXCEPT ![t].pc = pc]
Throw(t, error) == [tasks EXCEPT ![t].pc = "done", ![t].error = error]

executeItem(workItemId) ==
    /\ Issue([NoTask EXCEPT !.op = "executeItem", !.pc = "list", !.id = workItemId])
    /\ UNCHANGED <<queue, sessions, spawned, running, given, last, returned, storeVars, runVars, evVars, wkVars>>

\* executeItem without the check of the status.
executeItemListAny(t) ==
    /\ tasks[t].op = "executeItem" /\ tasks[t].pc = "list"
    /\ LET item == find(queue, tasks[t].id) IN
        tasks' = IF item = NoItem THEN Throw(t, "not found")
                 ELSE [tasks EXCEPT ![t].id = item.id,
                                    ![t].pc = IF item.status # "ready" THEN "ready"
                                              ELSE "spawn"]
    /\ UNCHANGED <<queue, sessions, spawned, running, ntasks, given, last, returned, storeVars, runVars, evVars, wkVars>>

\* executeItem after await queue.list(): the checks, up to queue.ready or _spawn
executeItemList(t) ==
    /\ tasks[t].op = "executeItem" /\ tasks[t].pc = "list"
    /\ LET item == find(queue, tasks[t].id) IN
        tasks' = IF item = NoItem THEN Throw(t, "not found")
                 ELSE IF item.status \notin {"ready", "inbox", "planning"}
                      THEN Throw(t, "cannot execute")
                 ELSE [tasks EXCEPT ![t].id = item.id,
                                    ![t].pc = IF item.status # "ready" THEN "ready"
                                              ELSE "spawn"]
    /\ UNCHANGED <<queue, sessions, spawned, running, ntasks, given, last, returned, storeVars, runVars, evVars, wkVars>>

executeNext(count) ==
    /\ Issue([NoTask EXCEPT !.op = "executeNext", !.pc = "list", !.id = count])
    /\ UNCHANGED <<queue, sessions, spawned, running, given, last, returned, storeVars, runVars, evVars, wkVars>>

\* executeNext after await queue.list('ready'): sort, slice, first _spawn
executeNextList(t) ==
    /\ tasks[t].op = "executeNext" /\ tasks[t].pc = "list"
    /\ LET readyItems == sortByPriority(list(queue, "ready"), 1)
           toSpawn == slice(readyItems, tasks[t].id)
       IN tasks' = IF Len(readyItems) = 0 THEN Step(t, "done")
                   ELSE [tasks EXCEPT ![t].pc = "spawn", ![t].id = toSpawn[1].id,
                                      ![t].toSpawn = [i \in 1..(Len(toSpawn) - 1) |-> toSpawn[i + 1].id]]
    /\ UNCHANGED <<queue, sessions, spawned, running, ntasks, given, last, returned, storeVars, runVars, evVars, wkVars>>

\* poll: the capacity check, then await queue.list('ready')
poll ==
    /\ Issue([NoTask EXCEPT !.op = "poll",
                !.pc = IF Cardinality(listSessions("working")) >= maxConcurrentAgents
                       THEN "done" ELSE "list"])
    /\ UNCHANGED <<queue, sessions, spawned, running, given, last, returned, storeVars, runVars, evVars, wkVars>>

\* poll after await queue.list('ready'): sort, take the first, dispatch
pollList(t) ==
    /\ tasks[t].op = "poll" /\ tasks[t].pc = "list"
    /\ LET readyItems == sortByPriority(list(queue, "ready"), 1)
       IN tasks' = IF Len(readyItems) = 0 THEN Step(t, "done")
                   ELSE [tasks EXCEPT ![t].pc = "spawn", ![t].id = readyItems[1].id]
    /\ UNCHANGED <<queue, sessions, spawned, running, ntasks, given, last, returned, storeVars, runVars, evVars, wkVars>>

dispatchItem(workItemId) ==
    /\ Issue([NoTask EXCEPT !.op = "dispatchItem", !.pc = "get", !.id = workItemId])
    /\ UNCHANGED <<queue, sessions, spawned, running, given, last, returned, storeVars, runVars, evVars, wkVars>>

\* dispatchItem after await queue.get(workItemId)
dispatchItemGet(t) ==
    /\ tasks[t].op = "dispatchItem" /\ tasks[t].pc = "get"
    /\ LET item == get(queue, tasks[t].id) IN
        tasks' = IF item = NoItem THEN Throw(t, "not found")
                 ELSE IF item.status \in {"inbox", "planning"} THEN Step(t, "ready")
                 ELSE Step(t, "spawn")
    /\ UNCHANGED <<queue, sessions, spawned, running, ntasks, given, last, returned, storeVars, runVars, evVars, wkVars>>

\* await queue.ready(id) in executeItem and dispatchItem
queueReady(t) ==
    /\ tasks[t].pc = "ready"
    /\ LET r == ready(queue, tasks[t].id) IN
        /\ queue' = r.items
        /\ tasks' = IF r.ok THEN Step(t, "spawn") ELSE Throw(t, "not found")
    /\ UNCHANGED <<sessions, spawned, running, ntasks, given, last, returned, storeVars, runVars, evVars, wkVars>>

\* agentManager.spawn(workItem), called by _spawn and by dispatch
spawn(t) ==
    /\ tasks[t].pc = "spawn"
    /\ spawned < MaxSessions
    /\ LET agentId == AgentIds[spawned + 1] IN
        /\ sessions' = [sessions EXCEPT ![agentId] =
                            [workItemId |-> tasks[t].id, status |-> "starting"]]
        /\ tasks' = [tasks EXCEPT ![t].pc = "update", ![t].agentId = agentId]
    /\ spawned' = spawned + 1
    /\ UNCHANGED <<queue, running, ntasks, given, last, returned, storeVars, runVars, evVars, wkVars>>

\* await queue.update(workItem.id, {status: 'in_flight', assignedAgentId})
\* in _spawn and in dispatch
queueUpdate(t) ==
    /\ tasks[t].pc = "update"
    /\ LET r == update(queue, tasks[t].id,
                       [status |-> "in_flight", assignedAgentId |-> tasks[t].agentId]) IN
        /\ queue' = r.items
        /\ tasks' = IF r.ok THEN Step(t, "track") ELSE Throw(t, "not found")
    /\ UNCHANGED <<sessions, spawned, running, ntasks, given, last, returned, storeVars, runVars, evVars, wkVars>>

\* saveQueue fails inside that queue.update (fs.writeFile rejects): the
\* error leaves _spawn or dispatch, and the call that made it.
queueUpdateFails(t) ==
    /\ tasks[t].pc = "update"
    /\ tasks' = Throw(t, "storage")
    /\ UNCHANGED <<queue, sessions, spawned, running, ntasks, given, last, returned, storeVars, runVars, evVars, wkVars>>

\* eventStream.publish(type, {agentId, workItemId}): the event published
event(type, agentId, workItemId) ==
    [type |-> type, agentId |-> agentId, workItemId |-> workItemId]

\* _spawn after the update: running.set, execution:started published, the
\* execution returned; the loop
\* of executeNext and of executeProject goes on to its next item
runningSet(t) ==
    /\ tasks[t].op \in ExecutorOps /\ tasks[t].pc = "track"
    /\ running' = [running EXCEPT ![tasks[t].agentId] = tasks[t].id]
    /\ tasks' = IF tasks[t].toSpawn = <<>>
                THEN [tasks EXCEPT ![t].pc = "done", ![t].results = Append(@, tasks[t].agentId)]
                ELSE [tasks EXCEPT ![t].pc = "spawn", ![t].id = Head(tasks[t].toSpawn),
                                   ![t].toSpawn = Tail(tasks[t].toSpawn),
                                   ![t].results = Append(@, tasks[t].agentId)]
    /\ published' = published \cup {event("execution:started", tasks[t].agentId, tasks[t].id)}
    /\ UNCHANGED <<queue, sessions, spawned, ntasks, given, last, returned, storeVars,
                   markers, pendingSpawns, evVars, wkVars>>

\* dispatch after the update: agentManager.updateStatus(agentId, 'working')
updateStatusWorking(t) ==
    /\ tasks[t].op \in DispatcherOps /\ tasks[t].pc = "track"
    /\ sessions' = [sessions EXCEPT ![tasks[t].agentId].status = "working"]
    /\ tasks' = Step(t, "done")
    /\ UNCHANGED <<queue, running, spawned, ntasks, given, last, returned, storeVars, runVars, evVars, wkVars>>

\* a worker's queue.claim(AGENT_ID)
workerClaim(agentId) ==
    /\ queue' = claim(queue, agentId).items
    /\ UNCHANGED <<given, last, returned, storeVars, engVars, runVars, evVars, wkVars>>

NextEngine ==
    \/ \E id \in EngineItems : executeItem(id)
    \/ \E count \in Counts : executeNext(count)
    \/ poll
    \/ \E id \in EngineItems : dispatchItem(id)
    \/ \E t \in 1..MaxTasks : executeItemList(t)
    \/ \E t \in 1..MaxTasks : executeNextList(t)
    \/ \E t \in 1..MaxTasks : pollList(t)
    \/ \E t \in 1..MaxTasks : dispatchItemGet(t)
    \/ \E t \in 1..MaxTasks : queueReady(t)
    \/ \E t \in 1..MaxTasks : spawn(t)
    \/ \E t \in 1..MaxTasks : queueUpdate(t)
    \/ \E t \in 1..MaxTasks : queueUpdateFails(t)
    \/ \E t \in 1..MaxTasks : runningSet(t)
    \/ \E t \in 1..MaxTasks : updateStatusWorking(t)
    \/ \E a \in Workers : workerClaim(a)

EngineInit == IdleStore /\ InitEngine /\ IdleEngine

SpecEngine == EngineInit /\ [][NextEngine]_vars

----------------------------------------------------------------------------
(* SpecBatch: one executeProject call on a project that holds the three     *)
(* items of the queue, the agents of the running executions writing their   *)
(* marker files, and checkExecution calls; a completed check drains         *)
(* pendingSpawns through _processQueue, which goes on as an executeItem     *)
(* (of an item that readyAll has made ready: its queue.ready is not called).*)

projectMaxConcurrent == 2   \* projects.create: project.maxConcurrent || 2

\* The project's items: each ready or in the inbox, the third one possibly done.
BatchQueues ==
    {q \in [EngineItems ->
                UNION {{[it EXCEPT !.status = st] : st \in {"ready", "inbox", "done"}} :
                            it \in UNION {ClaimItems(i) : i \in EngineItems}}] :
        \A i \in EngineItems :
            /\ q[i].id = i /\ q[i].priority = EnginePriority[i]
            /\ q[i].status = "done" => i = 3}

InitBatch ==
    /\ queue \in BatchQueues
    /\ given = queue
    /\ last = NoOp
    /\ returned = <<>>

\* items.slice(count)
sliceFrom(items, count) == SubSeq(items, count + 1, Len(items))

\* The ids of the work items executeProject may spawn.
readyItems(workItems) ==
    LET items == SelectSeq(workItems,
                           LAMBDA i : i.status \in {"ready", "inbox", "planning"})
    IN [k \in 1..Len(items) |-> items[k].id]

executeProject ==
    /\ \A t \in DOMAIN tasks : tasks[t].op # "executeProject"
    /\ Issue([NoTask EXCEPT !.op = "executeProject", !.pc = "get"])
    /\ UNCHANGED <<queue, sessions, spawned, running, given, last, returned, storeVars, runVars, evVars, wkVars>>

\* executeProject after await projects.get: project.workItems is the list read
\* now, and readyItems is taken from it after readyAll
executeProjectGet(t) ==
    /\ tasks[t].op = "executeProject" /\ tasks[t].pc = "get"
    /\ tasks' = [tasks EXCEPT ![t].pc = "readyAll", ![t].results = readyItems(queue)]
    /\ UNCHANGED <<queue, sessions, spawned, running, ntasks, given, last, returned, storeVars, runVars, evVars, wkVars>>

\* readyAll after its own await get(projectId): the items to ready
readyAllGet(t) ==
    /\ tasks[t].pc = "readyAll"
    /\ LET items == SelectSeq(queue, LAMBDA i : i.status \in {"inbox", "planning"}) IN
        tasks' = [tasks EXCEPT ![t].pc = "readyNext",
                               ![t].toSpawn = [k \in 1..Len(items) |-> items[k].id]]
    /\ UNCHANGED <<queue, sessions, spawned, running, ntasks, given, last, returned, storeVars, runVars, evVars, wkVars>>

\* readyAll: await queue.ready(item.id) of the next item
readyAllReady(t) ==
    /\ tasks[t].pc = "readyNext" /\ tasks[t].toSpawn # <<>>
    /\ LET r == ready(queue, Head(tasks[t].toSpawn)) IN
        /\ queue' = r.items
        /\ tasks' = IF r.ok THEN [tasks EXCEPT ![t].toSpawn = Tail(@)]
                    ELSE Throw(t, "not found")
    /\ UNCHANGED <<sessions, spawned, running, ntasks, given, last, returned, storeVars, runVars, evVars, wkVars>>

\* executeProject after await projects.readyAll: readyItems, toSpawn, the
\* rest pushed on pendingSpawns, the first _spawn
executeProjectBatch(t) ==
    /\ tasks[t].pc = "readyNext" /\ tasks[t].toSpawn = <<>>
    /\ LET ids == tasks[t].results
           toSpawn == slice(ids, projectMaxConcurrent)
           queued == sliceFrom(ids, projectMaxConcurrent)
       IN /\ tasks' = IF ids = <<>> THEN [tasks EXCEPT ![t].pc = "done", ![t].results = <<>>]
                      ELSE [tasks EXCEPT ![t].pc = "spawn", ![t].id = Head(toSpawn),
                                         ![t].toSpawn = Tail(toSpawn),
                                         ![t].queued = Len(queued),
                                         ![t].results = <<>>]
          /\ pendingSpawns' = IF ids = <<>> THEN pendingSpawns ELSE pendingSpawns \o queued
    /\ UNCHANGED <<queue, sessions, spawned, running, ntasks, given, last, returned, storeVars,
                   markers, published, evVars, wkVars>>

\* The files an agent leaves beside COMPLETION.md.
Deliverables == {<<"output.txt">>}

\* The agent of a running execution writes its deliverables and
\* COMPLETION.md into its artifacts directory.
writeCompletion(agentId, deliverables) ==
    /\ running[agentId] # 0
    /\ markers[agentId].completion = Undefined
    /\ markers' = [markers EXCEPT ![agentId].completion = "completion report",
                                  ![agentId].artifacts = deliverables]
    /\ UNCHANGED <<seqVars, storeVars, engVars, pendingSpawns, published, evVars, wkVars>>

\* The agent of a running execution writes BLOCKED.md into its workspace.
writeBlocked(agentId) ==
    /\ running[agentId] # 0
    /\ markers[agentId].blocked = Undefined
    /\ markers' = [markers EXCEPT ![agentId].blocked = "blocker report"]
    /\ UNCHANGED <<seqVars, storeVars, engVars, pendingSpawns, published, evVars, wkVars>>

\* agentManager.checkCompletion that looks for BLOCKED.md first.
checkCompletionBlockedFirst(agentId) ==
    IF sessions[agentId] = NoSession THEN NoResult
    ELSE IF markers[agentId].blocked # Undefined
         THEN [status |-> "blocked", report |-> markers[agentId].blocked]
    ELSE IF markers[agentId].completion # Undefined
         THEN [status |-> "completed", report |-> markers[agentId].completion]
    ELSE [status |-> "working", report |-> Undefined]

\* agentManager.checkCompletion(agentId); NoResult: null, no such session
checkCompletion(agentId) ==
    IF sessions[agentId] = NoSession THEN NoResult
    ELSE IF markers[agentId].completion # Undefined
         THEN [status |-> "completed", report |-> markers[agentId].completion]
    ELSE IF markers[agentId].blocked # Undefined
         THEN [status |-> "blocked", report |-> markers[agentId].blocked]
    ELSE [status |-> "working", report |-> Undefined]

\* collectArtifacts that finds no file.
collectNothing(agentId) == <<>>

\* agentManager.collectArtifacts(agentId): the files of the artifacts directory
collectArtifacts(agentId) ==
    IF markers[agentId].completion = Undefined THEN markers[agentId].artifacts
    ELSE <<"COMPLETION.md">> \o markers[agentId].artifacts

checkExecution(agentId) ==
    /\ Issue([NoTask EXCEPT !.op = "checkExecution", !.pc = "check", !.agentId = agentId])
    /\ UNCHANGED <<queue, sessions, spawned, running, given, last, returned, storeVars, runVars, evVars, wkVars>>

\* checkExecution after await agentManager.checkCompletion(agentId)
checkExecutionResult(t) ==
    /\ tasks[t].op = "checkExecution" /\ tasks[t].pc = "check"
    /\ LET result == checkCompletion(tasks[t].agentId)
           session == sessions[tasks[t].agentId]
       IN tasks' = IF session = NoSession THEN Throw(t, "Agent session not found")
                   ELSE [tasks EXCEPT ![t].result = result, ![t].id = session.workItemId,
                                      ![t].pc = IF result.status = "working" THEN "done"
                                                ELSE result.status]
    /\ UNCHANGED <<queue, sessions, spawned, running, ntasks, given, last, returned, storeVars, runVars, evVars, wkVars>>

\* completed: collectArtifacts, await queue.update(workItemId, {status:
\* 'review', artifacts}), then running.delete(agentId) and
\* execution:completed published
checkExecutionCompleted(t) ==
    /\ tasks[t].op = "checkExecution" /\ tasks[t].pc = "completed"
    /\ LET r == update(queue, tasks[t].id,
                       [status |-> "review",
                        artifacts |-> collectArtifacts(tasks[t].agentId)]) IN
        /\ queue' = r.items
        /\ tasks' = IF r.ok THEN Step(t, "processQueue") ELSE Throw(t, "not found")
        /\ running' = IF r.ok THEN [running EXCEPT ![tasks[t].agentId] = 0] ELSE running
        /\ published' = IF r.ok
                        THEN published \cup
                                {event("execution:completed", tasks[t].agentId, tasks[t].id)}
                        ELSE published
    /\ UNCHANGED <<sessions, spawned, ntasks, given, last, returned, storeVars,
                   markers, pendingSpawns, evVars, wkVars>>

\* blocked: await queue.update(workItemId, {status: 'blocked'}), then
\* running.delete(agentId) and execution:blocked published
checkExecutionBlocked(t) ==
    /\ tasks[t].op = "checkExecution" /\ tasks[t].pc = "blocked"
    /\ LET r == update(queue, tasks[t].id, [status |-> "blocked"]) IN
        /\ queue' = r.items
        /\ tasks' = IF r.ok THEN Step(t, "done") ELSE Throw(t, "not found")
        /\ running' = IF r.ok THEN [running EXCEPT ![tasks[t].agentId] = 0] ELSE running
        /\ published' = IF r.ok
                        THEN published \cup
                                {event("execution:blocked", tasks[t].agentId, tasks[t].id)}
                        ELSE published
    /\ UNCHANGED <<sessions, spawned, ntasks, given, last, returned, storeVars,
                   markers, pendingSpawns, evVars, wkVars>>

\* _processQueue that takes the item pushed last: pendingSpawns.pop().
processQueuePop(t) ==
    /\ tasks[t].pc = "processQueue"
    /\ IF \/ Len(pendingSpawns) = 0
          \/ Cardinality({a \in DOMAIN running : running[a] # 0}) >= maxConcurrent
       THEN /\ tasks' = Step(t, "done")
            /\ UNCHANGED pendingSpawns
       ELSE /\ tasks' = [tasks EXCEPT ![t].op = "executeItem", ![t].pc = "list",
                                      ![t].id = pendingSpawns[Len(pendingSpawns)],
                                      ![t].agentId = Null]
            /\ pendingSpawns' = SubSeq(pendingSpawns, 1, Len(pendingSpawns) - 1)
    /\ UNCHANGED <<queue, sessions, spawned, running, ntasks, given, last, returned, storeVars,
                   markers, published, evVars, wkVars>>

\* completed, after the event is published: this._processQueue(), which is
\* not awaited and goes on as executeItem(nextId)
processQueue(t) ==
    /\ tasks[t].pc = "processQueue"
    /\ IF \/ Len(pendingSpawns) = 0
          \/ Cardinality({a \in DOMAIN running : running[a] # 0}) >= maxConcurrent
       THEN /\ tasks' = Step(t, "done")
            /\ UNCHANGED pendingSpawns
       ELSE /\ tasks' = [tasks EXCEPT ![t].op = "executeItem", ![t].pc = "list",
                                      ![t].id = Head(pendingSpawns), ![t].agentId = Null]
            /\ pendingSpawns' = Tail(pendingSpawns)
    /\ UNCHANGED <<queue, sessions, spawned, running, ntasks, given, last, returned, storeVars,
                   markers, published, evVars, wkVars>>

NextBatch ==
    \/ executeProject
    \/ \E a \in DOMAIN sessions : checkExecution(a)
    \/ \E a \in DOMAIN sessions, d \in Deliverables : writeCompletion(a, d)
    \/ \E a \in DOMAIN sessions : writeBlocked(a)
    \/ \E t \in 1..MaxTasks : executeProjectGet(t)
    \/ \E t \in 1..MaxTasks : readyAllGet(t)
    \/ \E t \in 1..MaxTasks : readyAllReady(t)
    \/ \E t \in 1..MaxTasks : executeProjectBatch(t)
    \/ \E t \in 1..MaxTasks : checkExecutionResult(t)
    \/ \E t \in 1..MaxTasks : checkExecutionCompleted(t)
    \/ \E t \in 1..MaxTasks : checkExecutionBlocked(t)
    \/ \E t \in 1..MaxTasks : processQueue(t)
    \/ \E t \in 1..MaxTasks : executeItemList(t)
    \/ \E t \in 1..MaxTasks : spawn(t)
    \/ \E t \in 1..MaxTasks : queueUpdate(t)
    \/ \E t \in 1..MaxTasks : queueUpdateFails(t)
    \/ \E t \in 1..MaxTasks : runningSet(t)

BatchInit == IdleStore /\ InitBatch /\ IdleEngine

SpecBatch == BatchInit /\ [][NextBatch]_vars

----------------------------------------------------------------------------
(* SpecProjectExecutor: executeItem and checkCompletion calls on the        *)
(* ProjectExecutor of one project; queue is the project's store             *)
(* (src/queue/isolated.js), running the executor's own table of sessions.   *)

projectExecuteItem(workItemId) ==
    /\ Issue([NoTask EXCEPT !.op = "ProjectExecutor.executeItem", !.pc = "list",
                            !.id = workItemId])
    /\ UNCHANGED <<queue, sessions, spawned, running, given, last, returned, storeVars, runVars, evVars, wkVars>>

\* executeItem after await queue.list(projectId): the checks, up to
\* queue.ready or _spawn
projectExecuteItemList(t) ==
    /\ tasks[t].op = "ProjectExecutor.executeItem" /\ tasks[t].pc = "list"
    /\ LET item == find(queue, tasks[t].id) IN
        tasks' = IF item = NoItem THEN Throw(t, "not found")
                 ELSE IF item.status \notin {"ready", "inbox", "planning"}
                      THEN Throw(t, "cannot execute")
                 ELSE [tasks EXCEPT ![t].id = item.id,
                                    ![t].pc = IF item.status # "ready" THEN "ready"
                                              ELSE "spawn"]
    /\ UNCHANGED <<queue, sessions, spawned, running, ntasks, given, last, returned, storeVars, runVars, evVars, wkVars>>

\* await queue.ready(projectId, workItem.id)
projectQueueReady(t) ==
    /\ tasks[t].op = "ProjectExecutor.executeItem" /\ tasks[t].pc = "ready"
    /\ LET r == ready(queue, tasks[t].id) IN
        /\ queue' = r.items
        /\ tasks' = IF r.ok THEN Step(t, "spawn") ELSE Throw(t, "not found")
    /\ UNCHANGED <<sessions, spawned, running, ntasks, given, last, returned, storeVars, runVars, evVars, wkVars>>

\* _spawn: a fresh agentId, the workspace and TASK.md written, running.set;
\* the store is not written
projectSpawn(t) ==
    /\ tasks[t].op = "ProjectExecutor.executeItem" /\ tasks[t].pc = "spawn"
    /\ spawned < MaxSessions
    /\ LET agentId == AgentIds[spawned + 1] IN
        /\ running' = [running EXCEPT ![agentId] = tasks[t].id]
        /\ tasks' = [tasks EXCEPT ![t].pc = "done", ![t].agentId = agentId,
                                  ![t].results = <<agentId>>]
    /\ spawned' = spawned + 1
    /\ UNCHANGED <<queue, sessions, ntasks, given, last, returned, storeVars, runVars, evVars, wkVars>>

\* checkCompletion(agentId): this.running.get(agentId); without a session
\* it returns { error } at once
projectCheckCompletion(agentId) ==
    /\ Issue(IF running[agentId] = 0
             THEN [NoTask EXCEPT !.op = "ProjectExecutor.checkCompletion", !.pc = "done",
                                 !.agentId = agentId, !.error = "Agent session not found"]
             ELSE [NoTask EXCEPT !.op = "ProjectExecutor.checkCompletion", !.pc = "check",
                                 !.agentId = agentId, !.id = running[agentId]])
    /\ UNCHANGED <<queue, sessions, spawned, running, given, last, returned, storeVars, runVars, evVars, wkVars>>

\* After fs.access and fs.readFile of COMPLETION.md, or, when that throws,
\* of BLOCKED.md; with neither the call returns status 'running'.
projectCheckMarkers(t) ==
    /\ tasks[t].op = "ProjectExecutor.checkCompletion" /\ tasks[t].pc = "check"
    /\ LET m == markers[tasks[t].agentId] IN
        tasks' = IF m.completion # Undefined THEN Step(t, "completed")
                 ELSE IF m.blocked # Undefined THEN Step(t, "blocked")
                 ELSE [tasks EXCEPT ![t].pc = "done",
                                    ![t].result = [status |-> "running", report |-> Undefined]]
    /\ UNCHANGED <<queue, sessions, spawned, running, ntasks, given, last, returned, storeVars, runVars, evVars, wkVars>>

\* completed: _collectArtifacts, await queue.complete(projectId, workItemId,
\* artifacts), then running.delete(agentId); when complete throws, the catch
\* goes on to BLOCKED.md
projectCheckCompleted(t) ==
    /\ tasks[t].op = "ProjectExecutor.checkCompletion" /\ tasks[t].pc = "completed"
    /\ LET agentId == tasks[t].agentId
           r == complete(queue, tasks[t].id, collectArtifacts(agentId))
       IN /\ queue' = r.items
          /\ tasks' = IF r.ok
                      THEN [tasks EXCEPT ![t].pc = "done",
                                         ![t].result = [status |-> "completed",
                                                        report |-> markers[agentId].completion]]
                      ELSE IF markers[agentId].blocked # Undefined THEN Step(t, "blocked")
                      ELSE [tasks EXCEPT ![t].pc = "done",
                                         ![t].result = [status |-> "running",
                                                        report |-> Undefined]]
          /\ running' = IF r.ok THEN [running EXCEPT ![agentId] = 0] ELSE running
    /\ UNCHANGED <<sessions, spawned, ntasks, given, last, returned, storeVars, runVars, evVars, wkVars>>

\* blocked: await queue.update(projectId, workItemId, {status: 'blocked'}),
\* then running.delete(agentId); no event is published
projectCheckBlocked(t) ==
    /\ tasks[t].op = "ProjectExecutor.checkCompletion" /\ tasks[t].pc = "blocked"
    /\ LET agentId == tasks[t].agentId
           r == update(queue, tasks[t].id, [status |-> "blocked"])
       IN /\ queue' = r.items
          /\ tasks' = [tasks EXCEPT ![t].pc = "done",
                                    ![t].result =
                                        IF r.ok THEN [status |-> "blocked",
                                                      report |-> markers[agentId].blocked]
                                        ELSE [status |-> "running", report |-> Undefined]]
          /\ running' = IF r.ok THEN [running EXCEPT ![agentId] = 0] ELSE running
    /\ UNCHANGED <<sessions, spawned, ntasks, given, last, returned, storeVars, runVars, evVars, wkVars>>

NextProjectExecutor ==
    \/ \E id \in EngineItems : projectExecuteItem(id)
    \/ \E t \in 1..MaxTasks : projectExecuteItemList(t)
    \/ \E t \in 1..MaxTasks : projectQueueReady(t)
    \/ \E t \in 1..MaxTasks : projectSpawn(t)
    \/ \E a \in DOMAIN sessions, d \in Deliverables : writeCompletion(a, d)
    \/ \E a \in DOMAIN sessions : writeBlocked(a)
    \/ \E a \in DOMAIN sessions : projectCheckCompletion(a)
    \/ \E t \in 1..MaxTasks : projectCheckMarkers(t)
    \/ \E t \in 1..MaxTasks : projectCheckCompleted(t)
    \/ \E t \in 1..MaxTasks : projectCheckBlocked(t)

ProjectExecutorInit == IdleStore /\ InitEngine /\ IdleEngine

SpecProjectExecutor == ProjectExecutorInit /\ [][NextProjectExecutor]_vars

----------------------------------------------------------------------------
(* SpecExecute: executeItem calls of the Executor on a queue of two items,  *)
(* by the id of an item, by the leading part of one, or by an id that no    *)
(* item has; a worker claims ready items beside them.                       *)

ExecuteIds == {1, 2, 4, 5, 6}
ExecuteQueues ==
    {<<[SeedItem(1, "medium") EXCEPT !.status = s1],
       [SeedItem(2, "medium") EXCEPT !.status = s2]>> :
        s1 \in {"ready", "inbox", "blocked"}, s2 \in {"ready", "done"}}

InitExecute ==
    /\ queue \in ExecuteQueues
    /\ given = queue
    /\ last = NoOp
    /\ returned = <<>>

NextExecute ==
    \/ \E id \in ExecuteIds : executeItem(id)
    \/ \E w \in Workers : workerClaim(w)
    \/ \E t \in DOMAIN tasks : executeItemList(t)
    \/ \E t \in DOMAIN tasks : queueReady(t)
    \/ \E t \in DOMAIN tasks : spawn(t)
    \/ \E t \in DOMAIN tasks : queueUpdate(t)
    \/ \E t \in DOMAIN tasks : runningSet(t)

ExecuteInit == IdleStore /\ InitExecute /\ IdleEngine

SpecExecute == ExecuteInit /\ [][NextExecute]_vars

----------------------------------------------------------------------------
(* SpecRetry: executeItem calls of the Executor on a queue of one ready     *)
(* item, the agents of the running executions writing BLOCKED.md, and       *)
(* checkExecution calls.  No store call is made from outside the engine.    *)

InitRetry ==
    /\ queue = <<SeedItem(1, "medium")>>
    /\ given = queue
    /\ last = NoOp
    /\ returned = <<>>

NextRetry ==
    \/ executeItem(1)
    \/ \E a \in DOMAIN sessions : writeBlocked(a)
    \/ \E a \in DOMAIN sessions : checkExecution(a)
    \/ \E t \in DOMAIN tasks : executeItemList(t)
    \/ \E t \in DOMAIN tasks : spawn(t)
    \/ \E t \in DOMAIN tasks : queueUpdate(t)
    \/ \E t \in DOMAIN tasks : runningSet(t)
    \/ \E t \in DOMAIN tasks : checkExecutionResult(t)
    \/ \E t \in DOMAIN tasks : checkExecutionBlocked(t)

RetryInit ==
    /\ IdleStore /\ InitRetry
    /\ sessions = [a \in {AgentIds[n] : n \in 1..MaxSessions} |-> NoSession]
    /\ spawned = 0
    /\ running = [a \in {AgentIds[n] : n \in 1..MaxSessions} |-> 0]
    /\ tasks = [t \in 1..MaxRetryTasks |-> NoTask]
    /\ ntasks = 0
    /\ markers = [a \in {AgentIds[n] : n \in 1..MaxSessions} |-> NoMarkers]
    /\ pendingSpawns = <<>>
    /\ published = {}
    /\ IdleEvents
    /\ IdleWorker

SpecRetry == RetryInit /\ [][NextRetry]_vars

----------------------------------------------------------------------------
(* SpecBacklog: one executeProject call on a project of four ready items,   *)
(* the last one the most urgent, the agents of the running executions       *)
(* writing COMPLETION.md, and checkExecution calls, each completed one      *)
(* going on into _processQueue.                                             *)

InitBacklog ==
    /\ queue = <<SeedItem(1, "low"), SeedItem(2, "low"),
                 SeedItem(3, "medium"), SeedItem(4, "urgent")>>
    /\ given = queue
    /\ last = NoOp
    /\ returned = <<>>

NextBacklog ==
    \/ executeProject
    \/ \E a \in DOMAIN sessions : sessions[a] # NoSession /\ checkExecution(a)
    \/ \E a \in DOMAIN sessions, d \in Deliverables : writeCompletion(a, d)
    \/ \E t \in DOMAIN tasks : executeProjectGet(t)
    \/ \E t \in DOMAIN tasks : readyAllGet(t)
    \/ \E t \in DOMAIN tasks : executeProjectBatch(t)
    \/ \E t \in DOMAIN tasks : checkExecutionResult(t)
    \/ \E t \in DOMAIN tasks : checkExecutionCompleted(t)
    \/ \E t \in DOMAIN tasks : processQueue(t)
    \/ \E t \in DOMAIN tasks : executeItemList(t)
    \/ \E t \in DOMAIN tasks : spawn(t)
    \/ \E t \in DOMAIN tasks : queueUpdate(t)
    \/ \E t \in DOMAIN tasks : runningSet(t)

BacklogInit ==
    /\ IdleStore /\ InitBacklog
    /\ sessions = [a \in {AgentIds[n] : n \in 1..MaxSessions} |-> NoSession]
    /\ spawned = 0
    /\ running = [a \in {AgentIds[n] : n \in 1..MaxSessions} |-> 0]
    /\ tasks = [t \in 1..MaxBacklogTasks |-> NoTask]
    /\ ntasks = 0
    /\ markers = [a \in {AgentIds[n] : n \in 1..MaxSessions} |-> NoMarkers]
    /\ pendingSpawns = <<>>
    /\ published = {}
    /\ IdleEvents
    /\ IdleWorker

SpecBacklog == BacklogInit /\ [][NextBacklog]_vars

----------------------------------------------------------------------------
(* SpecDrain: one executeProject call on a project of three ready items,    *)
(* the agents of the running executions writing COMPLETION.md or            *)
(* BLOCKED.md, and checkExecution calls without end: a call that has        *)
(* returned gives its place to a later one.  Every continuation runs, every *)
(* running session ends and every session is checked again and again.       *)

InitDrain ==
    /\ queue = [i \in EngineItems |-> SeedItem(i, EnginePriority[i])]
    /\ given = queue
    /\ last = NoOp
    /\ returned = <<>>

\* The call issued last has returned to its caller, a checkExecution or the
\* executeItem a _processQueue went on as.
callReturns ==
    /\ ntasks > 0
    /\ tasks[ntasks].pc = "done" /\ tasks[ntasks].op # "executeProject"
    /\ tasks' = [tasks EXCEPT ![ntasks] = NoTask]
    /\ ntasks' = ntasks - 1
    /\ UNCHANGED <<queue, sessions, spawned, running, given, last, returned, storeVars,
                   runVars, evVars, wkVars>>

\* The continuations of call t.
Continue(t) ==
    \/ executeProjectGet(t)
    \/ readyAllGet(t)
    \/ executeProjectBatch(t)
    \/ checkExecutionResult(t)
    \/ checkExecutionCompleted(t)
    \/ checkExecutionBlocked(t)
    \/ processQueue(t)
    \/ executeItemList(t)
    \/ spawn(t)
    \/ queueUpdate(t)
    \/ runningSet(t)

\* The agent of a running execution ends it.
Ends(a) ==
    \/ \E d \in Deliverables : writeCompletion(a, d)
    \/ writeBlocked(a)

\* A completion check of a session agentManager knows.
Check(a) == sessions[a] # NoSession /\ checkExecution(a)

NextDrain ==
    \/ executeProject
    \/ callReturns
    \/ \E a \in DOMAIN sessions : Check(a)
    \/ \E a \in DOMAIN sessions : Ends(a)
    \/ \E t \in DOMAIN tasks : Continue(t)

DrainInit ==
    /\ IdleStore /\ InitDrain
    /\ sessions = [a \in {AgentIds[n] : n \in 1..MaxSessions} |-> NoSession]
    /\ spawned = 0
    /\ running = [a \in {AgentIds[n] : n \in 1..MaxSessions} |-> 0]
    /\ tasks = [t \in 1..MaxDrainTasks |-> NoTask]
    /\ ntasks = 0
    /\ markers = [a \in {AgentIds[n] : n \in 1..MaxSessions} |-> NoMarkers]
    /\ pendingSpawns = <<>>
    /\ published = {}
    /\ IdleEvents
    /\ IdleWorker

SpecDrain ==
    /\ DrainInit /\ [][NextDrain]_vars
    /\ WF_vars(callReturns)
    /\ \A t \in 1..MaxDrainTasks : WF_vars(Continue(t))
    /\ \A n \in 1..MaxSessions : WF_vars(Ends(AgentIds[n]))
    /\ \A n \in 1..MaxSessions : SF_vars(Check(AgentIds[n]))

----------------------------------------------------------------------------
(* SpecEvents: subscribe, publish and loadHistory calls on one EventStream. *)
(* publish runs to its await of appendToLog in one step; the append then    *)
(* succeeds or fails.  An event's id and timestamp are the time of its      *)
(* publish, and the clock ticks at every publish.  The stream starts with   *)
(* no log file or with the log of an earlier run.                           *)

\* The eventTypes each subscriber subscribes with.
Subscriptions == [ui |-> <<"*">>, audit |-> <<"execution:completed">>]
\* The limits loadHistory is called with.
Limits == {1, maxLogSize + 1}
\* The events.jsonl the stream starts with: none, or the maxLogSize + 1
\* events that an earlier run of the stream appended.
LogFiles ==
    {<<>>,
     [k \in 1..(maxLogSize + 1) |->
        [id |-> k - (maxLogSize + 1), type |-> "execution:completed", data |-> "data",
         timestamp |-> k - (maxLogSize + 1)]]}

\* this.eventLog.push(event); if over maxLogSize, this.eventLog.shift()
push(log, entry) ==
    LET pushed == Append(log, entry) IN
    IF Len(pushed) > maxLogSize THEN Tail(pushed) ELSE pushed

\* this.emit(eventType, event): the calls of the callbacks registered for it
emit(eventType, entry) ==
    {<<listeners[eventType][k], entry.id>> : k \in 1..Len(listeners[eventType])}

\* lines.slice(-limit)
sliceLast(lines, limit) ==
    SubSeq(lines, IF Len(lines) > limit THEN Len(lines) - limit + 1 ELSE 1, Len(lines))

\* subscribe(subscriberId, callback, eventTypes), once for a callback
subscribe(subscriberId, callback, eventTypes) ==
    /\ handles[callback].id = Null
    /\ subscribers' = [subscribers EXCEPT ![subscriberId] =
                            [callback |-> callback, eventTypes |-> eventTypes]]
    /\ listeners' = [type \in DOMAIN listeners |->
                        IF \E k \in 1..Len(eventTypes) : eventTypes[k] = type
                        THEN Append(listeners[type], callback)
                        ELSE listeners[type]]
    /\ handles' = [handles EXCEPT ![callback] = [id |-> subscriberId, called |-> FALSE]]
    /\ UNCHANGED <<seqVars, storeVars, engVars, runVars, now, eventLog, logFile, delivered, wkVars>>

\* this.off(eventType, callback): the callback's last registration is removed
off(registered, callback) ==
    LET last_ == findIndex({k \in 1..Len(registered) :
                    /\ registered[k] = callback
                    /\ \A j \in (k + 1)..Len(registered) : registered[j] # callback}) IN
    IF last_ = 0 THEN registered
    ELSE SubSeq(registered, 1, last_ - 1) \o SubSeq(registered, last_ + 1, Len(registered))

\* unsubscribe(subscriberId)
unsubscribe(subscriberId) ==
    LET sub == subscribers[subscriberId] IN
    /\ listeners' = [type \in DOMAIN listeners |->
                        IF \E k \in 1..Len(sub.eventTypes) : sub.eventTypes[k] = type
                        THEN off(listeners[type], sub.callback)
                        ELSE listeners[type]]
    /\ subscribers' = [subscribers EXCEPT ![subscriberId] = NoSubscriber]

\* The handle that subscribe returned for the callback is called:
\* () => this.unsubscribe(subscriberId)
handle(callback) ==
    /\ handles[callback].id # Null
    /\ unsubscribe(handles[callback].id)
    /\ handles' = [handles EXCEPT ![callback].called = TRUE]
    /\ UNCHANGED <<seqVars, storeVars, engVars, runVars, now, eventLog, logFile, delivered, wkVars>>

\* publish up to await this.appendToLog(event)
publish(eventType, data) ==
    LET ev == [id |-> now + 1, type |-> eventType, data |-> data,
                  timestamp |-> now + 1] IN
    /\ Issue([NoTask EXCEPT !.op = "publish", !.pc = "appendToLog", !.result = ev])
    /\ now' = now + 1
    /\ eventLog' = push(eventLog, ev)
    /\ delivered' = delivered \cup emit(eventType, ev) \cup emit("*", ev)
    /\ UNCHANGED <<seqVars, storeVars, sessions, spawned, running, runVars,
                   logFile, listeners, subscribers, handles, wkVars>>

\* appendToLog that lets the error of fs.appendFile through.
appendToLogThrows(t, ok) ==
    /\ tasks[t].op = "publish" /\ tasks[t].pc = "appendToLog"
    /\ logFile' = IF ok THEN Append(logFile, tasks[t].result) ELSE logFile
    /\ tasks' = IF ok THEN Step(t, "done") ELSE Throw(t, "Failed to log ev")
    /\ UNCHANGED <<seqVars, storeVars, sessions, spawned, running, ntasks, runVars,
                   now, eventLog, listeners, delivered, subscribers, handles, wkVars>>

\* appendToLog: fs.appendFile of the line of the event succeeds (ok) or
\* fails, and the failure is caught; publish then returns the event
appendToLog(t, ok) ==
    /\ tasks[t].op = "publish" /\ tasks[t].pc = "appendToLog"
    /\ logFile' = IF ok THEN Append(logFile, tasks[t].result) ELSE logFile
    /\ tasks' = Step(t, "done")
    /\ UNCHANGED <<seqVars, storeVars, sessions, spawned, running, ntasks, runVars,
                   now, eventLog, listeners, delivered, subscribers, handles, wkVars>>

loadHistory(limit) ==
    /\ Issue([NoTask EXCEPT !.op = "loadHistory", !.pc = "readFile", !.id = limit])
    /\ UNCHANGED <<seqVars, storeVars, sessions, spawned, running, runVars, evVars, wkVars>>

\* loadHistory after await fs.readFile: ENOENT while nothing was appended
loadHistoryRead(t) ==
    /\ tasks[t].op = "loadHistory" /\ tasks[t].pc = "readFile"
    /\ eventLog' = IF logFile = <<>> THEN eventLog ELSE sliceLast(logFile, tasks[t].id)
    /\ tasks' = Step(t, "done")
    /\ UNCHANGED <<seqVars, storeVars, sessions, spawned, running, ntasks, runVars,
                   now, logFile, listeners, delivered, subscribers, handles, wkVars>>

NextEvents ==
    \/ \E s \in Subscribers : subscribe(s, s, Subscriptions[s])
    \/ \E eventType \in EventTypes : publish(eventType, "data")
    \/ \E limit \in Limits : loadHistory(limit)
    \/ \E t \in DOMAIN tasks, ok \in BOOLEAN : appendToLog(t, ok)
    \/ \E t \in DOMAIN tasks : loadHistoryRead(t)

EventsInit ==
    /\ IdleStore /\ IdleSeq
    /\ sessions = [a \in {AgentIds[n] : n \in 1..MaxSessions} |-> NoSession]
    /\ spawned = 0
    /\ running = [a \in {AgentIds[n] : n \in 1..MaxSessions} |-> 0]
    /\ tasks = [t \in 1..MaxStreamCalls |-> NoTask]
    /\ ntasks = 0
    /\ markers = [a \in {AgentIds[n] : n \in 1..MaxSessions} |-> NoMarkers]
    /\ pendingSpawns = <<>>
    /\ published = {}
    /\ now = 0
    /\ eventLog = <<>>
    /\ logFile \in LogFiles
    /\ listeners = [type \in EventTypes \cup {"*"} |-> <<>>]
    /\ delivered = {}
    /\ subscribers = [subscriberId \in Subscribers |-> NoSubscriber]
    /\ handles = [callback \in Callbacks |-> [id |-> Null, called |-> FALSE]]
    /\ IdleWorker

SpecEvents == EventsInit /\ [][NextEvents]_vars

----------------------------------------------------------------------------
(* SpecSubscribe: subscribe calls with any subscriber id for a callback,    *)
(* calls of the handles they returned, and publish calls.                   *)

NextSubscribe ==
    \/ \E s \in Subscribers, callback \in Callbacks, eventTypes \in {<<"*">>} :
            subscribe(s, callback, eventTypes)
    \/ \E callback \in Callbacks : handle(callback)
    \/ \E eventType \in EventTypes : publish(eventType, "data")
    \/ \E t \in DOMAIN tasks, ok \in BOOLEAN : appendToLog(t, ok)

SubscribeInit == IdleStore /\ IdleSeq /\ IdleEngine

SpecSubscribe == SubscribeInit /\ [][NextSubscribe]_vars

----------------------------------------------------------------------------
(* SpecWorker: one agent worker process in mock mode on a store of three    *)
(* ready items: the poll timer and the work-available notifications call    *)
(* checkForWork, which claims an item and runs executeWork on it.           *)

AGENT_ID == "agent-1"

InitWorker ==
    /\ queue = [i \in EngineItems |-> SeedItem(i, EnginePriority[i])]
    /\ given = queue
    /\ last = NoOp
    /\ returned = <<>>

\* setInterval(checkForWork, POLL_INTERVAL): a tick.  With isWorking set the
\* call returns at once; otherwise it runs to await queue.heartbeat.
checkForWork ==
    /\ ~isWorking
    /\ Issue([NoTask EXCEPT !.op = "checkForWork", !.pc = "heartbeat"])
    /\ UNCHANGED <<queue, sessions, spawned, running, given, last, returned, storeVars,
                   runVars, evVars, wkVars>>

\* A work-available notification: if (!isWorking) checkForWork()
onWorkAvailable ==
    /\ ~isWorking
    /\ checkForWork

\* checkForWork after await queue.heartbeat(AGENT_ID, 'idle'): queue.claim
\* is called
checkForWorkHeartbeat(t) ==
    /\ tasks[t].op = "checkForWork" /\ tasks[t].pc = "heartbeat"
    /\ tasks' = Step(t, "claim")
    /\ UNCHANGED <<queue, sessions, spawned, running, ntasks, given, last, returned,
                   storeVars, runVars, evVars, wkVars>>

\* queue.claim(AGENT_ID) takes effect: with an item, checkForWork goes on to
\* await queue.heartbeat(AGENT_ID, 'working'); with null it returns
checkForWorkClaim(t) ==
    /\ tasks[t].op = "checkForWork" /\ tasks[t].pc = "claim"
    /\ LET r == claim(queue, AGENT_ID) IN
        /\ queue' = r.items
        /\ tasks' = IF r.ret = 0 THEN Step(t, "done")
                    ELSE [tasks EXCEPT ![t].pc = "working", ![t].id = r.ret]
    /\ UNCHANGED <<sessions, spawned, running, ntasks, given, last, returned, storeVars,
                   runVars, evVars, wkVars>>

\* executeWork(item) up to its await of the mock duration
executeWork(t) ==
    /\ tasks[t].op = "checkForWork" /\ tasks[t].pc = "working"
    /\ isWorking' = TRUE
    /\ currentWork' = tasks[t].id
    /\ tasks' = Step(t, "execute")
    /\ UNCHANGED <<queue, sessions, spawned, running, ntasks, given, last, returned,
                   storeVars, runVars, evVars>>

\* The mock duration is over and queue.complete(item.id, artifacts) takes
\* effect; an error of it is caught and logged
executeWorkComplete(t) ==
    /\ tasks[t].op = "checkForWork" /\ tasks[t].pc = "execute"
    /\ queue' = complete(queue, tasks[t].id, <<"artifact-1">>).items
    /\ tasks' = Step(t, "finally")
    /\ UNCHANGED <<sessions, spawned, running, ntasks, given, last, returned, storeVars,
                   runVars, evVars, wkVars>>

\* finally { isWorking = false; currentWork = null }
executeWorkFinally(t) ==
    /\ tasks[t].op = "checkForWork" /\ tasks[t].pc = "finally"
    /\ isWorking' = FALSE
    /\ currentWork' = 0
    /\ tasks' = Step(t, "done")
    /\ UNCHANGED <<queue, sessions, spawned, running, ntasks, given, last, returned,
                   storeVars, runVars, evVars>>

NextWorker ==
    \/ checkForWork
    \/ onWorkAvailable
    \/ \E t \in DOMAIN tasks : checkForWorkHeartbeat(t)
    \/ \E t \in DOMAIN tasks : checkForWorkClaim(t)
    \/ \E t \in DOMAIN tasks : executeWork(t)
    \/ \E t \in DOMAIN tasks : executeWorkComplete(t)
    \/ \E t \in DOMAIN tasks : executeWorkFinally(t)

WorkerInit ==
    /\ IdleStore /\ InitWorker
    /\ sessions = [a \in {AgentIds[n] : n \in 1..MaxSessions} |-> NoSession]
    /\ spawned = 0
    /\ running = [a \in {AgentIds[n] : n \in 1..MaxSessions} |-> 0]
    /\ tasks = [t \in 1..MaxWorkerTasks |-> NoTask]
    /\ ntasks = 0
    /\ markers = [a \in {AgentIds[n] : n \in 1..MaxSessions} |-> NoMarkers]
    /\ pendingSpawns = <<>>
    /\ published = {}
    /\ IdleEvents
    /\ IdleWorker

SpecWorker == WorkerInit /\ [][NextWorker]_vars

----------------------------------------------------------------------------
(* Claims on the engine *)

LiveSessions == {a \in DOMAIN sessions : sessions[a].status \in {"starting", "working"}}

\* C2: a work item never has two live sessions with the same workItemId,
\* and an item that is in_flight for one agent is never given to another
\* agent while it stays in_flight.
C2_ClaimedOnce ==
    /\ \A a, b \in LiveSessions : sessions[a].workItemId = sessions[b].workItemId => a = b
    /\ [][\A i \in 1..Len(queue) :
            (queue[i].status = "in_flight" /\ queue'[i].status = "in_flight")
                => queue'[i].assignedAgentId = queue[i].assignedAgentId]_vars

\* C3: the Executor never holds more than maxConcurrent running executions.
C3_Capacity ==
    Cardinality({a \in DOMAIN running : running[a] # 0}) <= maxConcurrent

----------------------------------------------------------------------------
(* Claims on the batch dispatch *)

Running == {a \in DOMAIN running : running[a] # 0}

\* The project held three items executeProject may dispatch.
ThreeDispatchable == Len(readyItems(given)) = 3

\* C17: what a check of a session returns is decided by its marker files
\* alone: completed, with the content of the completion marker, whenever
\* that marker exists, also beside a blocked marker; blocked, with the
\* content of the blocked marker, when only that one exists; working when
\* there is neither.
C17_MarkersDecide ==
    [][\A t \in 1..MaxTasks :
        (tasks[t].pc = "check" /\ tasks'[t].pc # "check" /\ tasks'[t].error = Null)
            => LET m == markers[tasks[t].agentId] IN
               tasks'[t].result =
                   IF m.completion # Undefined
                   THEN [status |-> "completed", report |-> m.completion]
                   ELSE IF m.blocked # Undefined
                        THEN [status |-> "blocked", report |-> m.blocked]
                        ELSE [status |-> "working", report |-> Undefined]]_vars

\* A check returned completed for a session that has both markers.
C17_Witness ==
    \E t \in 1..MaxTasks :
        /\ tasks[t].result = [status |-> "completed", report |-> "completion report"]
        /\ tasks[t].pc = "completed"
        /\ markers[tasks[t].agentId].blocked = "blocker report"

\* C18: with maxConcurrent 2 and three dispatchable items, executeProject
\* starts exactly two sessions and queues exactly one item; a session for
\* the queued item exists only once a completed session has left the
\* running table, and an item leaves pendingSpawns only in the
\* _processQueue of a completed check that finds fewer than maxConcurrent
\* executions running.
C18_BatchThenQueue ==
    /\ [](ThreeDispatchable =>
            /\ \A t \in 1..MaxTasks :
                    (tasks[t].op = "executeProject" /\ tasks[t].pc = "done"
                        /\ tasks[t].error = Null)
                        => (Len(tasks[t].results) = 2 /\ tasks[t].queued = 1)
            /\ Len(pendingSpawns) <= 1
            /\ \A a \in DOMAIN sessions :
                    sessions[a].workItemId = 3
                        => \E b \in DOMAIN sessions :
                                markers[b].completion # Undefined /\ running[b] = 0)
    /\ [][Len(pendingSpawns') < Len(pendingSpawns)
            => \E t \in 1..MaxTasks :
                    /\ tasks[t].pc = "processQueue"
                    /\ tasks[t].result.status = "completed"
                    /\ running[tasks[t].agentId] = 0
                    /\ Cardinality(Running) < maxConcurrent
                    /\ tasks'[t].op = "executeItem"
                    /\ tasks'[t].id = Head(pendingSpawns)]_vars

\* executeProject returned spawned 2, queued 1; one of the two executions
\* completed, and the queued item is running in the freed slot.
C18_Witness ==
    /\ ThreeDispatchable
    /\ \E t \in 1..MaxTasks :
            /\ tasks[t].op = "executeProject" /\ tasks[t].pc = "done"
            /\ Len(tasks[t].results) = 2 /\ tasks[t].queued = 1
    /\ pendingSpawns = <<>>
    /\ \E a \in Running : running[a] = 3
    /\ Cardinality(Running) = 2

----------------------------------------------------------------------------
(* Claims on the dispatch *)

\* C20: when the store update of a dispatch fails after the spawn, the spawn
\* is rolled back: no session of the call is left in the session table or
\* in the running table.
C20_SpawnRolledBack ==
    \A t \in 1..MaxTasks :
        (tasks[t].pc = "done" /\ tasks[t].error # Null /\ tasks[t].agentId # Null)
            => (sessions[tasks[t].agentId] = NoSession /\ running[tasks[t].agentId] = 0)

\* C19: when a dispatch has returned, its session is in the running table
\* and its work item is in_flight, assigned to the agent of that session.
C19_Dispatched ==
    \A t \in 1..MaxTasks :
        (tasks[t].op = "ProjectExecutor.executeItem" /\ tasks[t].pc = "done"
            /\ tasks[t].error = Null)
            => /\ running[tasks[t].agentId] = tasks[t].id
               /\ get(queue, tasks[t].id).status = "in_flight"
               /\ get(queue, tasks[t].id).assignedAgentId = tasks[t].agentId

\* C22: the step of a check that found only the blocked marker of a running
\* session leaves the work item of the session blocked and the session out
\* of the running table, with a blocked event published for the item.
C22_BlockedRecorded ==
    [][\A t \in 1..MaxTasks :
        (tasks[t].op = "ProjectExecutor.checkCompletion" /\ tasks[t].pc = "blocked"
            /\ tasks'[t].pc # "blocked")
            => LET agentId == tasks[t].agentId IN
               /\ get(queue', tasks[t].id).status = "blocked"
               /\ running'[agentId] = 0
               /\ \E e \in published' :
                    e.type = "execution:blocked" /\ e.workItemId = tasks[t].id]_vars

\* C23: no step of the engine moves an item out of blocked.
C23_NoRetry ==
    [][\A i \in 1..Len(queue) :
            queue[i].status = "blocked" => queue'[i].status = "blocked"]_vars

\* C24: executeItem on an id that matches no item fails with 'not found',
\* and on an item that is not ready, inbox or planning with 'cannot execute';
\* the call ends there with no session of its own, and its step leaves the
\* queue, the session table and the running table as they were.
C24_ExecuteRejected ==
    [][\A t \in DOMAIN tasks :
        (tasks[t].op = "executeItem" /\ tasks[t].pc = "list" /\ tasks'[t].pc # "list")
        => LET item == find(queue, tasks[t].id)
               rejected == /\ tasks'[t].pc = "done" /\ tasks'[t].agentId = Null
                           /\ queue' = queue /\ sessions' = sessions
                           /\ running' = running /\ spawned' = spawned
           IN /\ item = NoItem => tasks'[t].error = "not found" /\ rejected
              /\ (item # NoItem /\ item.status \notin {"ready", "inbox", "planning"})
                    => tasks'[t].error = "cannot execute" /\ rejected]_vars

C24_Witness ==
    /\ \E t \in DOMAIN tasks :
        /\ tasks[t].op = "executeItem" /\ tasks[t].pc = "done"
        /\ tasks[t].error = "cannot execute" /\ tasks[t].agentId = Null
        /\ get(queue, tasks[t].id).status = "in_flight"
    /\ \E t \in DOMAIN tasks :
        /\ tasks[t].op = "executeItem" /\ tasks[t].pc = "done"
        /\ tasks[t].error = "not found" /\ tasks[t].id = 6
    /\ spawned = 0

\* C25: an item in review or done after a completion, or back in ready, has
\* no assigned agent.
C25_AssignmentCleared ==
    \A i \in 1..Len(queue) :
        queue[i].status \in {"review", "done", "ready"}
            => queue[i].assignedAgentId \in Falsy

\* C26: no store operation changes the id or the createdAt of an item.
C26_IdentityKept ==
    [][\A i \in 1..Len(queue) :
            /\ queue'[i].id = queue[i].id
            /\ queue'[i].createdAt = queue[i].createdAt]_vars

\* C27: every item has updatedAt >= createdAt.
C27_UpdatedAfterCreated ==
    \A i \in 1..Len(queue) : queue[i].updatedAt >= queue[i].createdAt

\* C28: stats returns the number of items as total and, for every status of
\* the lifecycle, the number of items in it as byStatus[s] (a status that
\* byStatus does not list counting as zero); the counts add up to total, and
\* stats leaves the items as they were.
C28_StatsCounts ==
    last.op = "stats" =>
        /\ last.ret.total = Len(last.before)
        /\ \A s \in Statuses :
            (IF s \in DOMAIN last.ret.byStatus THEN last.ret.byStatus[s] ELSE 0) =
                Cardinality({i \in 1..Len(last.before) : last.before[i].status = s})
        /\ queue = last.before

\* C29: the ring never holds more than maxLogSize events.
C29_RingCapped == Len(eventLog) <= maxLogSize

\* C30: publish puts the event last in the ring and calls the callbacks
\* registered for its type and for '*' before it awaits the append; whether
\* the append succeeds or fails, publish then returns that event with no
\* error, and the ring and the deliveries stay as they were.
C30_PublishSurvives ==
    [][\A t \in DOMAIN tasks :
        /\ (tasks[t].pc = "idle" /\ tasks'[t].op = "publish")
            => LET ev == tasks'[t].result IN
                /\ eventLog'[Len(eventLog')] = ev
                /\ \A type \in {ev.type, "*"} :
                    \A k \in 1..Len(listeners[type]) :
                        <<listeners[type][k], ev.id>> \in delivered'
        /\ (tasks[t].op = "publish" /\ tasks[t].pc = "appendToLog"
                /\ tasks'[t].pc # "appendToLog")
            => /\ tasks'[t].pc = "done" /\ tasks'[t].error = Null
               /\ tasks'[t].result = tasks[t].result
               /\ eventLog' = eventLog /\ delivered' = delivered]_vars

C30_Witness ==
    \E t \in DOMAIN tasks :
        LET ev == tasks[t].result IN
        /\ tasks[t].op = "publish" /\ tasks[t].pc = "done" /\ tasks[t].error = Null
        /\ \A k \in 1..Len(logFile) : logFile[k] # ev
        /\ listeners["*"] = <<"ui">> /\ listeners[ev.type] = <<"audit">>
        /\ {<<"ui", ev.id>>, <<"audit", ev.id>>} \subseteq delivered
        /\ Len(eventLog) > 0 /\ eventLog[Len(eventLog)] = ev

\* C31: once the handle returned for a callback has been called, the
\* callback is called for no event published afterwards.
C31_HandleSilences ==
    [][\A callback \in Callbacks :
        handles[callback].called
            => {d \in delivered' : d[1] = callback} = {d \in delivered : d[1] = callback}]_vars

\* C32: every entry of the running table is for an item that is in_flight
\* in the store and assigned to the session of the entry.
C32_RunningInFlight ==
    \A agentId \in DOMAIN running :
        running[agentId] # 0
            => /\ get(queue, running[agentId]).status = "in_flight"
               /\ get(queue, running[agentId]).assignedAgentId = agentId

\* The outcome of the session has been folded into its work item: the
\* event of the outcome has been published.
Folded(agentId) ==
    \E e \in published :
        e.agentId = agentId /\ e.type \in {"execution:completed", "execution:blocked"}

\* C33: a session whose outcome has been folded into its work item is in
\* the session table no more, and no check reads its marker files again.
C33_FoldedSessionGone ==
    /\ [](\A agentId \in DOMAIN sessions :
            Folded(agentId) => sessions[agentId] = NoSession)
    /\ [][\A t \in DOMAIN tasks :
            (tasks[t].op = "checkExecution" /\ tasks[t].pc = "check"
                /\ tasks'[t].pc \in {"completed", "blocked"})
            => ~Folded(tasks[t].agentId)]_vars

\* C38: the outcome of a session is folded into its work item at most
\* once: no check updates the item and publishes the event of the outcome
\* for a session whose outcome has been folded already.
C38_FoldedOnce ==
    [][\A t \in DOMAIN tasks :
            (tasks[t].op = "checkExecution" /\ tasks[t].pc \in {"completed", "blocked"}
                /\ tasks'[t].pc # tasks[t].pc /\ tasks'[t].error = Null)
            => ~Folded(tasks[t].agentId)]_vars

C35_BacklogDrained ==
    \A id \in EngineItems :
        (\E k \in 1..Len(pendingSpawns) : pendingSpawns[k] = id)
            ~> (\E a \in DOMAIN sessions :
                    sessions[a] # NoSession /\ sessions[a].workItemId = id)

\* C36: the lock of a project is first in, first out.  Calls are numbered in
\* the order they called withProjectLock; no call of a project is past its
\* await of previousLock while an earlier call of the project still waits
\* at its own.
C36_LockFifo ==
    \A c, d \in CallIds :
        (d < c /\ SameProject(c, d) /\ calls[d].pc = "await") => calls[c].pc = "await"

\* Two calls of one project, the second made while the first was waiting or
\* inside, have both entered the critical section.
C36_Witness ==
    \E c, d \in CallIds :
        /\ d < c /\ SameProject(c, d) /\ d \in calls[c].overlaps
        /\ calls[d].pc = "done" /\ InFn(c)

\* C37: the lock of a project cannot be left held.  Every call that waits
\* for the lock eventually runs its fn, given that every fn settles; a fn
\* that throws releases the lock in the step it throws in, and that step
\* changes no other call: the error is the result of its own call only.
C37_LockReleased ==
    /\ \A c \in CallIds : (calls[c].pc = "await") ~> (calls[c].pc # "await")
    /\ [][\A c \in CallIds :
            (calls[c].pc = "load" /\ calls'[c].pc = "done" /\ ~calls'[c].ok) =>
                /\ c \in resolved'
                /\ \A d \in CallIds \ {c} : calls'[d] = calls[d]]_vars

\* A call that waited for a call whose fn threw has run its own fn and
\* returned without error.
C37_Witness ==
    \E c, d \in CallIds :
        /\ d < c /\ SameProject(c, d) /\ d \in calls[c].overlaps
        /\ calls[d].pc = "done" /\ ~calls[d].ok
        /\ calls[c].pc = "done" /\ calls[c].ok

\* C39: no ready item is permanently unclaimable.  With no other call in
\* between, a claim that returns null leaves the store as it is, so every
\* later claim returns null too: each ready item is returned after finitely
\* many claims exactly when claim returns null only on a store that holds no
\* ready item, whatever the priority values of its items.
C39_ReadyClaimable ==
    (last.op = "claim" /\ last.ret = 0) =>
        \A i \in 1..Len(queue) : queue[i].status # "ready"

\* C40: the worker holds at most one claimed item that is in flight, and at
\* most one of its checkForWork calls is between issuing its claim and the
\* end of its executeWork.
C40_OneAtATime ==
    /\ Cardinality({i \in 1..Len(queue) :
            queue[i].status = "in_flight" /\ queue[i].assignedAgentId = AGENT_ID}) <= 1
    /\ Cardinality({t \in DOMAIN tasks :
            /\ tasks[t].op = "checkForWork"
            /\ tasks[t].pc \in {"claim", "working", "execute", "finally"}}) <= 1

====
